---------------------------- MODULE Spec2Model ----------------------------
(***************************************************************************)
(* State-machine model of the NRZI symbol engine of the wavedata modem:    *)
(*   - the lazy NRZI encoder          (src/src/encodings/enc.rs)           *)
(*   - the symbol -> transition map   (src/src/signals/enc/am.rs, utils)   *)
(*   - the NRZI byte decoder          (src/src/encodings/dec.rs)           *)
(*   - the bit-packed buffer BitVec   (src/src/utils.rs)                   *)
(*   - the AM shaper                  (src/src/signals/enc/am.rs)          *)
(*   - the AM transition decoder      (src/src/signals/dec/am.rs)          *)
(***************************************************************************)
EXTENDS Integers, Sequences, FiniteSets

VARIABLES
    c,            \* enc::nrzi::Parameters  {payload, stuff_bit_after, preamble}
    m,            \* enc::nrzi::State
    out,          \* the values Iterator::next has returned as Some(_), in order
    last,         \* what the latest call of Iterator::next did
    transitions,  \* the result of nrzi_to_transition_states on the collected stream
    frame,        \* dec::nrzi::NRZI::parse argument `frame`
    bit_stuffing, \* dec::nrzi::NRZI::parse argument `bit_stuffing`
    dpreamble,    \* dec::nrzi::NRZI::parse argument `preamble`
    idx,          \* number of items of `frame` the loop of parse has taken
    sm,           \* local `sm` of parse
    sof,          \* local `sof` of parse
    result,       \* local `result` of parse (a BitVec)
    pc,           \* position of parse: idle, loop, after, returned
    ret,          \* what parse returned
    am_c,         \* signals::enc::am::NRZIConsts
    am_m,         \* signals::enc::am::NRZIState (nrzi: the encoder's c and m)
    am_dt,        \* the argument dt of the latest advance_with
    am_ret,       \* what the latest advance_with returned
    am_oks,       \* number of Ok results so far of a run sampled with one and
                  \* the same dt (0 once the steps differ)
    am_dts,       \* the dt values advance_with has been called with so far
    td_c,         \* signals::dec::am::Parameters
    td_m,         \* signals::dec::am::State
    td_ret,       \* what the latest call on the TransitionDecoder did
    td_appended,  \* number of samples append_samples has been given so far
    th_mutex,     \* the holder of each of the two mutexes of dec::am::State
    th_prod,      \* each producer thread's position in append_samples
    th_owner,     \* the owner thread's position in the sample-promotion methods
    th_order,     \* the blocks given to append_samples, in the order they took the lock
    th_consumed,  \* the samples drained into FFT windows so far, in order
    fn_args,      \* the arguments of the free function under call
    fn_ret        \* what the function returned and what it left in its out-parameters

encvars == <<c, m, out, last, transitions>>
decvars == <<frame, bit_stuffing, dpreamble, idx, sm, sof, result, pc, ret>>
amvars == <<am_c, am_m, am_dt, am_ret, am_oks, am_dts>>
thvars == <<th_mutex, th_prod, th_owner, th_order, th_consumed>>
fnvars == <<fn_args, fn_ret>>
tdvars == <<td_c, td_m, td_ret, td_appended, thvars>>
vars == <<c, m, out, last, transitions,
          frame, bit_stuffing, dpreamble, idx, sm, sof, result, pc, ret,
          am_c, am_m, am_dt, am_ret, am_oks, am_dts,
          td_c, td_m, td_ret, td_appended,
          th_mutex, th_prod, th_owner, th_order, th_consumed, fn_args, fn_ret>>

---------------------------------------------------------------------------
(* Bounds of the model *)

MaxPayloadLen == 2       \* payloads hold 0..MaxPayloadLen bytes
MaxStuffBitAfter == 3    \* small stuff_bit_after values are 1..MaxStuffBitAfter
MaxPreamble == 2         \* preamble lengths are 0..MaxPreamble
MaxSymbols == 300        \* cap on the number of symbols collected from the encoder
MaxFrameLen == 4         \* frames given to parse directly hold 0..MaxFrameLen items
MaxHold == 2             \* Hold counts in those frames are 0..MaxHold
MaxBaudLength == 3       \* the shaper's baud_length is 2..MaxBaudLength ticks
MaxCalls == 80           \* cap on the number of Ok results collected from the shaper
MaxSamples == 7          \* cap on the number of samples given to append_samples
MaxPushes == 4           \* cap on the number of transitions pushed
MaxSignalLen == 3        \* signals and kernels given to conv1d hold 0..MaxSignalLen items
MaxBlocks == 3           \* the producer threads call append_samples at most MaxBlocks times in all
MaxBits == 10            \* a BitVec called on its own holds at most MaxBits bits
MaxAccCalls == 3         \* WindowedWeightedAverage::acc is called at most MaxAccCalls times
MantissaBits == 3        \* floating-point numbers keep MantissaBits bits of mantissa

(* u8 arithmetic: stuff_bit_after, preamble, contigous_zeros and sof are u8 *)
U8Modulus == 256

(* bits of a byte *)
ByteBits == 8

\* the byte values payloads are drawn from: all zeros, all ones, the bytes of
\* the encoder's unit tests (0b1000_0100, 0b1001_1000)
PayloadBytes == {0, 132, 152, 255}

RECURSIVE Pow2(_)
Pow2(n) == IF n = 0 THEN 1 ELSE 2 * Pow2(n - 1)

RECURSIVE SeqsUpTo(_, _)
SeqsUpTo(S, n) ==
    IF n = 0 THEN {<<>>}
    ELSE LET shorter == SeqsUpTo(S, n - 1)
         IN  shorter \cup {Append(q, x) : q \in {r \in shorter : Len(r) = n - 1}, x \in S}

\* the encoder's parameters with small stuff_bit_after and preamble
SmallParameters ==
    [payload : SeqsUpTo(PayloadBytes, MaxPayloadLen),
     stuff_bit_after : 1..MaxStuffBitAfter,
     preamble : 0..MaxPreamble]

\* stuff_bit_after and preamble are u8: the two largest stuff_bit_after
\* values, and the largest preamble, each with a payload of at most one byte
EdgeParameters ==
    [payload : SeqsUpTo(PayloadBytes, 1),
     stuff_bit_after : {U8Modulus - 2, U8Modulus - 1},
     preamble : 0..MaxPreamble]
    \cup
    [payload : SeqsUpTo(PayloadBytes, 1),
     stuff_bit_after : 1..MaxStuffBitAfter,
     preamble : {U8Modulus - 1}]

---------------------------------------------------------------------------
(* encodings::nrzi::Value *)

StartOfFrame(i) == [t |-> "StartOfFrame", v |-> i]
Bit(b) == [t |-> "Bit", v |-> IF b THEN 1 ELSE 0]
EndOfFrame(i) == [t |-> "EndOfFrame", v |-> i]
StuffBit == [t |-> "StuffBit", v |-> 0]
Complete == [t |-> "Complete", v |-> 0]

\* outcomes of a call that are not a Value
Panic == [t |-> "Panic", v |-> 0]
None == [t |-> "None", v |-> 0]
NoCall == [t |-> "NoCall", v |-> 0]

---------------------------------------------------------------------------
(* encodings::enc::nrzi *)

State_init ==
    [payload_offset |-> 0, current_bit_offset |-> 0, contigous_zeros |-> 0,
     sm |-> "BeginOfFrame", preamble |-> 0]

\* faulty variant: the stuffing threshold is off by one
stuffing_gt(cc, mm) == mm.contigous_zeros > cc.stuff_bit_after

stuffing(cc, mm) == mm.contigous_zeros >= cc.stuff_bit_after

is_end_of_frame(cc, mm) == mm.payload_offset >= Len(cc.payload)

\* self.c.payload[self.m.payload_offset] is an index out of bounds
current_bit_panics(cc, mm) == mm.payload_offset >= Len(cc.payload)

\* faulty variant: the byte is read least significant bit first
current_bit_lsb(cc, mm) ==
    LET byte == cc.payload[mm.payload_offset + 1]
        mask_byte == Pow2(mm.current_bit_offset)
    IN  (byte \div mask_byte) % 2 # 0

current_bit(cc, mm) ==
    LET byte == cc.payload[mm.payload_offset + 1]
        mask_byte == Pow2(7 - mm.current_bit_offset)
    IN  (byte \div mask_byte) % 2 # 0

advance_bit(mm) ==
    IF mm.current_bit_offset < 7
    THEN [mm EXCEPT !.current_bit_offset = mm.current_bit_offset + 1]
    ELSE [mm EXCEPT !.current_bit_offset = 0, !.payload_offset = mm.payload_offset + 1]

current(cc, mm) ==
    CASE mm.sm = "BeginOfFrame" -> StartOfFrame(mm.preamble)
      [] mm.sm = "Payload" ->
            IF ~stuffing(cc, mm)
            THEN IF current_bit_panics(cc, mm) THEN Panic ELSE Bit(current_bit(cc, mm))
            ELSE StuffBit
      [] mm.sm = "EndOfFrame" -> EndOfFrame(mm.contigous_zeros)
      [] mm.sm = "Complete" -> Complete

\* advance() panics: an index out of bounds, or a u8 overflow in a build with
\* overflow checks (oc)
advance_panics(cc, mm, oc) ==
    CASE mm.sm = "BeginOfFrame" -> oc /\ mm.preamble + 1 >= U8Modulus
      [] mm.sm = "Payload" ->
            \/ current_bit_panics(cc, mm)
            \/ oc /\ ~stuffing(cc, mm) /\ ~current_bit(cc, mm)
                  /\ mm.contigous_zeros + 1 >= U8Modulus
      [] mm.sm = "EndOfFrame" ->
            oc /\ (\/ mm.contigous_zeros + 1 >= U8Modulus
                   \/ cc.stuff_bit_after + 1 >= U8Modulus)
      [] mm.sm = "Complete" -> FALSE

\* faulty variant: one StartOfFrame too many
advance_BeginOfFrame_le(cc, mm) ==
    LET p == (mm.preamble + 1) % U8Modulus
    IN  [mm EXCEPT !.preamble = p,
                   !.sm = IF p <= cc.preamble THEN "BeginOfFrame" ELSE "Payload"]

\* advance(), arm StateMachine::BeginOfFrame
advance_BeginOfFrame(cc, mm) ==
    LET p == (mm.preamble + 1) % U8Modulus
    IN  [mm EXCEPT !.preamble = p,
                   !.sm = IF p < cc.preamble THEN "BeginOfFrame" ELSE "Payload"]

\* faulty variant: the stuff bit consumes a payload bit
advance_Payload_skip(cc, mm) ==
    LET last_bit == current_bit(cc, mm)
        m1 == IF ~stuffing(cc, mm)
              THEN advance_bit(
                     [mm EXCEPT !.contigous_zeros =
                         IF ~last_bit THEN (mm.contigous_zeros + 1) % U8Modulus
                         ELSE 0])
              ELSE advance_bit([mm EXCEPT !.contigous_zeros = 0])
    IN  IF ~is_end_of_frame(cc, m1)
        THEN [m1 EXCEPT !.sm = "Payload"]
        ELSE [m1 EXCEPT !.contigous_zeros = 0, !.sm = "EndOfFrame"]

\* advance(), arm StateMachine::Payload
advance_Payload(cc, mm) ==
    LET last_bit == current_bit(cc, mm)
        m1 == IF ~stuffing(cc, mm)
              THEN advance_bit(
                     [mm EXCEPT !.contigous_zeros =
                         IF ~last_bit THEN (mm.contigous_zeros + 1) % U8Modulus
                         ELSE 0])
              ELSE [mm EXCEPT !.contigous_zeros = 0]
    IN  IF ~is_end_of_frame(cc, m1)
        THEN [m1 EXCEPT !.sm = "Payload"]
        ELSE [m1 EXCEPT !.contigous_zeros = 0, !.sm = "EndOfFrame"]

\* advance(), arm StateMachine::EndOfFrame
advance_EndOfFrame(cc, mm) ==
    LET z == (mm.contigous_zeros + 1) % U8Modulus
    IN  [mm EXCEPT !.contigous_zeros = z,
                   !.sm = IF z > (cc.stuff_bit_after + 1) % U8Modulus
                          THEN "Complete" ELSE "EndOfFrame"]

\* advance(), arm StateMachine::Complete
advance_Complete(mm) == mm

advance(cc, mm) ==
    CASE mm.sm = "BeginOfFrame" -> advance_BeginOfFrame(cc, mm)
      [] mm.sm = "Payload" -> advance_Payload(cc, mm)
      [] mm.sm = "EndOfFrame" -> advance_EndOfFrame(cc, mm)
      [] mm.sm = "Complete" -> advance_Complete(mm)

\* Iterator::next: current(), then advance(); Complete is returned as None.
\* A panic unwinds out of the call and the encoder is not used again.
next ==
    /\ last # Panic
    /\ Len(out) < MaxSymbols
    /\ \E oc \in BOOLEAN :
         LET value == current(c, m)
         IN  IF value = Panic \/ advance_panics(c, m, oc)
             THEN /\ last' = Panic
                  /\ UNCHANGED <<m, out>>
             ELSE /\ m' = advance(c, m)
                  /\ IF value = Complete
                     THEN last' = None /\ out' = out
                     ELSE last' = value /\ out' = Append(out, value)
    /\ UNCHANGED <<c, transitions>>
    /\ UNCHANGED decvars
    /\ UNCHANGED <<amvars, tdvars, fnvars>>

---------------------------------------------------------------------------
(* signals::am::Transition (signals::TransitionState in signals/enc/am.rs) *)

Rising == [t |-> "Rising", v |-> 0]
Falling == [t |-> "Falling", v |-> 0]
Hold(n) == [t |-> "Hold", v |-> n]
Noise(n) == [t |-> "Noise", v |-> n]

(* signals::BinaryLevel *)

neg(level) == IF level = "High" THEN "Low" ELSE "High"

\* BinaryLevel::transition, the edge that leaves a level
transition(level) == IF level = "Low" THEN Rising ELSE Falling

---------------------------------------------------------------------------
(* signals::enc::am::utils::nrzi_to_transition_states *)

\* one iteration of the for loop: the arms of the match, in order
nrzi_to_transition_states_match(level, value) ==
    CASE level = "Low" /\ value.t = "StartOfFrame" ->
            [t |-> "Ok", push |-> Rising, level |-> "High"]
      [] value = StuffBit \/ value = Bit(TRUE) ->
            [t |-> "Ok", push |-> transition(level), level |-> neg(level)]
      [] value = Bit(FALSE) ->
            [t |-> "Ok", push |-> Hold(1), level |-> level]
      [] level = "Low" /\ value = EndOfFrame(0) ->
            [t |-> "Ok", push |-> Rising, level |-> "High"]
      [] level = "High" /\ value.t = "EndOfFrame" /\ value.v <= 1 ->
            [t |-> "Ok", push |-> Falling, level |-> "Low"]
      [] level = "Low" /\ value.t = "EndOfFrame" /\ value.v # 0 ->
            [t |-> "Ok", push |-> Hold(1), level |-> "Low"]
      [] level = "Low" /\ value = Complete ->
            [t |-> "Break", push |-> Noise(1), level |-> "Low"]
      [] OTHER ->
            [t |-> "Err", push |-> Noise(0), level |-> level]

RECURSIVE nrzi_to_transition_states_loop(_, _, _, _)
nrzi_to_transition_states_loop(input, i, level, acc) ==
    IF i > Len(input) THEN [t |-> "Ok", v |-> acc]
    ELSE LET r == nrzi_to_transition_states_match(level, input[i])
         IN  CASE r.t = "Err" -> [t |-> "Err", v |-> <<>>]
               [] r.t = "Break" -> [t |-> "Ok", v |-> Append(acc, r.push)]
               [] OTHER -> nrzi_to_transition_states_loop(
                               input, i + 1, r.level, Append(acc, r.push))

\* the closure of the final fold: adjacent Holds and adjacent Noises are summed
nrzi_to_transition_states_merge(acc, item) ==
    IF acc # <<>>
    THEN LET prev == acc[Len(acc)]
         IN  IF prev.t = "Hold" /\ item.t = "Hold"
             THEN [acc EXCEPT ![Len(acc)] = Hold(prev.v + item.v)]
             ELSE IF prev.t = "Noise" /\ item.t = "Noise"
             THEN [acc EXCEPT ![Len(acc)] = Noise(prev.v + item.v)]
             ELSE Append(acc, item)
    ELSE Append(acc, item)

RECURSIVE nrzi_to_transition_states_fold(_, _, _)
nrzi_to_transition_states_fold(items, i, acc) ==
    IF i > Len(items) THEN acc
    ELSE nrzi_to_transition_states_fold(
             items, i + 1, nrzi_to_transition_states_merge(acc, items[i]))

nrzi_to_transition_states(input) ==
    LET r == nrzi_to_transition_states_loop(input, 1, "Low", <<>>)
    IN  IF r.t = "Err" THEN r
        ELSE [t |-> "Ok", v |-> nrzi_to_transition_states_fold(r.v, 1, <<>>)]

---------------------------------------------------------------------------
(* utils::BitVec *)

BitVec_new == [s |-> <<>>, bl |-> 0]

\* Vec::resize(new_len, value)
resize(s, new_len, value) ==
    [i \in 1..new_len |-> IF i <= Len(s) THEN s[i] ELSE value]

set_bit(b, n, value) ==
    LET bit == Pow2(7 - n)
        cleared == IF (b \div bit) % 2 = 1 THEN b - bit ELSE b
    IN  IF value THEN cleared + bit ELSE cleared

read_bit(b, n) == (b \div Pow2(7 - n)) % 2 # 0

push(bv, value) ==
    LET s1 == resize(bv.s, bv.bl \div 8 + 1, 0)
        bl1 == bv.bl + 1
    IN  [s |-> [s1 EXCEPT ![Len(s1)] = set_bit(s1[Len(s1)], (bl1 - 1) % 8, value)],
         bl |-> bl1]

RECURSIVE push_n(_, _, _)
push_n(bv, n, value) == IF n = 0 THEN bv ELSE push_n(push(bv, value), n - 1, value)

\* faulty variant: the last byte is dropped and the bit length is kept
truncate_last_incomplete_byte_keep_bl(bv) ==
    IF bv.bl % 8 > 0
    THEN [s |-> SubSeq(bv.s, 1, Len(bv.s) - 1), bl |-> bv.bl]
    ELSE bv

truncate_last_incomplete_byte(bv) ==
    IF bv.bl % 8 > 0
    THEN [s |-> SubSeq(bv.s, 1, Len(bv.s) - 1), bl |-> (bv.bl \div 8) * 8]
    ELSE bv

byte_vec(bv) == bv.s

---------------------------------------------------------------------------
(* encodings::dec::nrzi *)

Begin(n) == [t |-> "Begin", v |-> n]
BitState(n) == [t |-> "Bit", v |-> n]
Done(n) == [t |-> "Done", v |-> n]

StepOk(st, sf, res) == [err |-> "", sm |-> st, sof |-> sf, result |-> res]
StepErr(e, sf, res) == [err |-> e, sm |-> Begin(0), sof |-> sf, result |-> res]

\* faulty variant: Noise is skipped in every Begin state, not only before the first edge
parse_Begin_noise(value, ts, sf, res, preamble) ==
    IF ts.t = "Noise" THEN StepOk(Begin(value), sf, res)
    ELSE IF (ts = Rising /\ value % 2 = 0) \/ (ts = Falling /\ value % 2 = 1)
    THEN LET sof1 == (sf + 1) % U8Modulus
         IN  IF sof1 < preamble
             THEN StepOk(Begin(sof1), sof1, res)
             ELSE StepOk(BitState(0), sof1, res)
    ELSE StepErr("IncorrectStartOfFrame", sf, res)

\* the arms (NRZIState::Begin(_), _) of parse
parse_Begin(value, ts, sf, res, preamble) ==
    IF value = 0 /\ ts.t = "Noise" THEN StepOk(Begin(0), sf, res)
    ELSE IF (ts = Rising /\ value % 2 = 0) \/ (ts = Falling /\ value % 2 = 1)
    THEN LET sof1 == (sf + 1) % U8Modulus
         IN  IF sof1 < preamble
             THEN StepOk(Begin(sof1), sof1, res)
             ELSE StepOk(BitState(0), sof1, res)
    ELSE StepErr("IncorrectStartOfFrame", sf, res)

\* faulty variant: a Hold that exactly fills the stuffing budget is refused
parse_Bit_Hold_lt(hold_count, hold_length, sf, res, bs) ==
    IF hold_length + hold_count < bs
    THEN StepOk(BitState(hold_count + hold_length), sf, push_n(res, hold_length, FALSE))
    ELSE StepErr("IncorrectBitStuffingInTransitions", sf, res)

\* the arm (NRZIState::Bit(hold_count), Transition::Hold(hold_length))
parse_Bit_Hold(hold_count, hold_length, sf, res, bs) ==
    IF hold_length + hold_count <= bs
    THEN StepOk(BitState(hold_count + hold_length), sf, push_n(res, hold_length, FALSE))
    ELSE StepErr("IncorrectBitStuffingInTransitions", sf, res)

\* faulty variant: the frame offset is the index of the Noise itself
parse_Bit_Noise_idx(hold_count, i, sf, res, bs) ==
    IF hold_count >= bs
    THEN StepOk(Done(i), sf, truncate_last_incomplete_byte(res))
    ELSE StepErr("IncompleteFrame", sf, res)

\* faulty variant: a Noise ends the frame whatever the zero count
parse_Bit_Noise_any(hold_count, i, sf, res, bs) ==
    StepOk(Done(i + 1), sf, truncate_last_incomplete_byte(res))

\* the arm (NRZIState::Bit(hold_count), Transition::Noise(_))
parse_Bit_Noise(hold_count, i, sf, res, bs) ==
    IF hold_count >= bs
    THEN StepOk(Done(i + 1), sf, truncate_last_incomplete_byte(res))
    ELSE StepErr("IncompleteFrame", sf, res)

\* faulty variant: the stuff bit is taken for a one
parse_Bit_edge_le(hold_count, sf, res, bs) ==
    StepOk(BitState(0), sf, IF hold_count <= bs THEN push(res, TRUE) ELSE res)

\* the arm (NRZIState::Bit(hold_count), _): Rising or Falling
parse_Bit_edge(hold_count, sf, res, bs) ==
    StepOk(BitState(0), sf, IF hold_count < bs THEN push(res, TRUE) ELSE res)

\* the match of one loop iteration, for a state that is not Done
parse_match(st, ts, i, sf, res, bs, preamble) ==
    CASE st.t = "Begin" -> parse_Begin(st.v, ts, sf, res, preamble)
      [] st.t = "Bit" /\ ts.t = "Hold" -> parse_Bit_Hold(st.v, ts.v, sf, res, bs)
      [] st.t = "Bit" /\ ts.t = "Noise" -> parse_Bit_Noise(st.v, i, sf, res, bs)
      [] st.t = "Bit" -> parse_Bit_edge(st.v, sf, res, bs)

RetNone == [t |-> "None", e |-> "", payload |-> <<>>, frame_offset |-> 0]
RetErr(e) == [t |-> "Err", e |-> e, payload |-> <<>>, frame_offset |-> 0]
RetOk(res, off) == [t |-> "Ok", e |-> "", payload |-> byte_vec(res), frame_offset |-> off]
RetPanic == [t |-> "Panic", e |-> "Internal error", payload |-> <<>>, frame_offset |-> 0]

\* one iteration of `for (idx, ts) in frame.iter().enumerate()`
parse_iteration ==
    /\ pc = "loop"
    /\ idx < Len(frame)
    /\ IF sm.t = "Done"
       THEN /\ pc' = "after"
            /\ UNCHANGED <<idx, sm, sof, result, ret>>
       ELSE LET r == parse_match(sm, frame[idx + 1], idx, sof, result,
                                 bit_stuffing, dpreamble)
            IN  IF r.err # ""
                THEN /\ ret' = RetErr(r.err)
                     /\ pc' = "returned"
                     /\ UNCHANGED <<idx, sm, sof, result>>
                ELSE /\ sm' = r.sm
                     /\ sof' = r.sof
                     /\ result' = r.result
                     /\ idx' = idx + 1
                     /\ UNCHANGED <<pc, ret>>
    /\ UNCHANGED <<frame, bit_stuffing, dpreamble>>
    /\ UNCHANGED encvars
    /\ UNCHANGED <<amvars, tdvars, fnvars>>

\* the code after the loop: Ok(Self {..}) in Done, panic!("Internal error") otherwise
parse_return ==
    /\ pc = "after" \/ (pc = "loop" /\ idx = Len(frame))
    /\ ret' = IF sm.t = "Done" THEN RetOk(result, sm.v) ELSE RetPanic
    /\ pc' = "returned"
    /\ UNCHANGED <<frame, bit_stuffing, dpreamble, idx, sm, sof, result>>
    /\ UNCHANGED encvars
    /\ UNCHANGED <<amvars, tdvars, fnvars>>

---------------------------------------------------------------------------
(* signals::enc::am: the AM shaper.  Time is counted in ticks; an amplitude *)
(* is kept as its numerator over the denominator transition_width.         *)

\* signals::Error and the other outcomes of advance_with
Undersampled == [t |-> "Err", e |-> "Undersampled", v |-> 0]
Finished == [t |-> "Err", e |-> "Finished", v |-> 0]
AmOk(a) == [t |-> "Ok", e |-> "", v |-> a]
AmPanic == [t |-> "Panic", e |-> "", v |-> 0]
AmNoCall == [t |-> "NoCall", e |-> "", v |-> 0]

NRZIState_init(nrzi_params) ==
    [nrzi |-> [c |-> nrzi_params, m |-> State_init],
     current_transition_progress |-> 0,
     current_level |-> "Low"]

\* faulty variant: the two amplitudes are taken the other way round
level_to_amplitude_swapped(cc, level) ==
    IF level = "Low" THEN cc.highlow[1] ELSE cc.highlow[2]

level_to_amplitude(cc, level) ==
    IF level = "Low" THEN cc.highlow[2] ELSE cc.highlow[1]

\* transition() reads nrzi.current(), which panics past the end of the payload
am_transition_panics(mm) == current(mm.nrzi.c, mm.nrzi.m) = Panic

\* faulty variant: EndOfFrame(1) flips the level from Low as well
am_transition_eof1(mm) ==
    LET value == current(mm.nrzi.c, mm.nrzi.m)
    IN  CASE value.t = "StartOfFrame" \/ value = StuffBit \/ value = Bit(TRUE) -> TRUE
          [] value.t = "EndOfFrame" -> value.v <= 1
          [] OTHER -> FALSE

\* NRZI::transition
am_transition(mm) ==
    LET value == current(mm.nrzi.c, mm.nrzi.m)
    IN  CASE value.t = "StartOfFrame" \/ value = StuffBit \/ value = Bit(TRUE) -> TRUE
          [] value.t = "EndOfFrame" ->
                IF mm.current_level = "Low" THEN value.v = 0 ELSE value.v <= 1
          [] OTHER -> FALSE

\* faulty variant: the progress is not clamped
clamp_none(x, lower, higher) == x

\* f32::clamp
clamp(x, lower, higher) ==
    IF x < lower THEN lower ELSE IF x > higher THEN higher ELSE x

\* (progress / transition_width).clamp(0.0, 1.0), times transition_width
caluclate_transition_slope(cc, mm) ==
    LET progress == clamp(mm.current_transition_progress, 0, cc.transition_width)
        from == level_to_amplitude(cc, mm.current_level)
        to == level_to_amplitude(cc, neg(mm.current_level))
        delta == to - from
    IN  from * cc.transition_width + delta * progress

current_value(cc, mm) ==
    IF ~am_transition(mm)
    THEN level_to_amplitude(cc, mm.current_level) * cc.transition_width
    ELSE caluclate_transition_slope(cc, mm)

\* the state NRZI::advance leaves when it does not return early
am_advance_state(cc, mm, dt) ==
    LET p1 == mm.current_transition_progress + dt
    IN  IF p1 >= cc.baud_length
        THEN [nrzi |-> [c |-> mm.nrzi.c, m |-> advance(mm.nrzi.c, mm.nrzi.m)],
              current_transition_progress |-> p1 - cc.baud_length,
              current_level |-> IF am_transition(mm) THEN neg(mm.current_level)
                                ELSE mm.current_level]
        ELSE [mm EXCEPT !.current_transition_progress = p1]

\* NRZI::advance panics: in transition(), in nrzi.advance() or in nrzi.current()
am_advance_panics(cc, mm, dt, oc) ==
    /\ dt <= cc.transition_width
    /\ \/ /\ mm.current_transition_progress + dt >= cc.baud_length
          /\ \/ am_transition_panics(mm)
             \/ advance_panics(mm.nrzi.c, mm.nrzi.m, oc)
       \/ am_transition_panics(am_advance_state(cc, mm, dt))

\* faulty variant: the step is refused only after the progress was advanced
am_advance_late(cc, mm, dt) ==
    IF dt > cc.transition_width
    THEN [ret |-> Undersampled,
          m |-> [mm EXCEPT !.current_transition_progress = @ + dt]]
    ELSE LET m1 == am_advance_state(cc, mm, dt)
         IN  [ret |-> IF current(m1.nrzi.c, m1.nrzi.m) = Complete
                      THEN Finished ELSE AmOk(0),
              m |-> m1]

\* NRZI::advance: Undersampled and nothing changed, or the new state with
\* Finished or Ok
am_advance(cc, mm, dt) ==
    IF dt > cc.transition_width
    THEN [ret |-> Undersampled, m |-> mm]
    ELSE LET m1 == am_advance_state(cc, mm, dt)
         IN  [ret |-> IF current(m1.nrzi.c, m1.nrzi.m) = Complete
                      THEN Finished ELSE AmOk(0),
              m |-> m1]

\* the steps advance_with is called with: none, the smallest, the largest
\* accepted and the smallest refused
DtValues(cc) == {0, 1, cc.transition_width, cc.transition_width + 1}

\* Signal::advance_with: the value before the step, unless advance fails
advance_with ==
    /\ am_ret # AmPanic
    /\ am_oks < MaxCalls
    /\ \E dt \in DtValues(am_c), oc \in BOOLEAN :
         /\ am_dt' = dt
         /\ am_dts' = am_dts \cup {dt}
         /\ IF am_transition_panics(am_m) \/ am_advance_panics(am_c, am_m, dt, oc)
            THEN /\ am_ret' = AmPanic
                 /\ am_oks' = IF Cardinality(am_dts') > 1 THEN 0 ELSE am_oks
                 /\ UNCHANGED am_m
            ELSE LET value == current_value(am_c, am_m)
                     r == am_advance(am_c, am_m, dt)
                 IN  /\ am_m' = r.m
                     /\ am_ret' = IF r.ret.t = "Ok" THEN AmOk(value) ELSE r.ret
                     /\ am_oks' = IF Cardinality(am_dts') > 1 THEN 0
                                  ELSE IF r.ret.t = "Ok" THEN am_oks + 1 ELSE am_oks
    /\ UNCHANGED am_c
    /\ UNCHANGED <<encvars, decvars, tdvars, fnvars>>

---------------------------------------------------------------------------
(* utils::conv1d and utils::median_non_averaged, on integer amplitudes *)

\* signal - kernel + 1 in usize: the subtraction underflows for signal < kernel
valid_result_length_overflows(signal, kernel) == signal < kernel
valid_result_length(signal, kernel) == signal - kernel + 1

\* window.iter().zip(kernel.iter()).fold(T::zero(), |acc, (sig, ker)| acc + sig * ker)
RECURSIVE fold_window(_, _, _, _)
fold_window(signal, kernel, i, k) ==
    IF k = 0 THEN 0
    ELSE fold_window(signal, kernel, i, k - 1) + signal[i + k - 1] * kernel[k]

\* conv1d::same: the inner loop over kernel_idx for the output item idx
\* (indices as in the code, from zero); acc is *result_elem
RECURSIVE same_fold(_, _, _, _, _, _, _)
same_fold(signal, kernel, acc, kernel_idx, kernel_end_idx, signal_start_idx_, kernel_start_idx) ==
    IF kernel_idx >= kernel_end_idx THEN acc
    ELSE same_fold(signal, kernel,
                   acc + signal[signal_start_idx_ + (kernel_idx - kernel_start_idx) + 1]
                         * kernel[kernel_idx + 1],
                   kernel_idx + 1, kernel_end_idx, signal_start_idx_, kernel_start_idx)

\* conv1d::same: the output item idx (from zero) after the call
same_elem(signal, kernel, idx_, result_elem) ==
    LET half_kernel_len == Len(kernel) \div 2
        signal_start_idx_ == IF idx_ - half_kernel_len > 0 THEN idx_ - half_kernel_len ELSE 0
        kernel_start_idx == IF half_kernel_len - idx_ > 0 THEN half_kernel_len - idx_ ELSE 0
        bound == Len(signal) + half_kernel_len - idx_
        kernel_end_idx == IF Len(kernel) < bound THEN Len(kernel) ELSE bound
    IN  same_fold(signal, kernel, result_elem, kernel_start_idx, kernel_end_idx,
                  signal_start_idx_, kernel_start_idx)

\* conv1d::same reads the signal or the kernel out of bounds for the item idx
same_elem_out_of_bounds(signal, kernel, idx_) ==
    LET half_kernel_len == Len(kernel) \div 2
        signal_start_idx_ == IF idx_ - half_kernel_len > 0 THEN idx_ - half_kernel_len ELSE 0
        kernel_start_idx == IF half_kernel_len - idx_ > 0 THEN half_kernel_len - idx_ ELSE 0
        bound == Len(signal) + half_kernel_len - idx_
        kernel_end_idx == IF Len(kernel) < bound THEN Len(kernel) ELSE bound
    IN  \E kernel_idx \in kernel_start_idx..(kernel_end_idx - 1) :
            \/ signal_start_idx_ + (kernel_idx - kernel_start_idx) >= Len(signal)
            \/ kernel_idx >= Len(kernel)

\* conv1d::same panics: the lengths differ, or an index is out of bounds
same_panics(signal, kernel, buffer) ==
    \/ Len(signal) # Len(buffer)
    \/ \E idx_ \in 0..(Len(buffer) - 1) : same_elem_out_of_bounds(signal, kernel, idx_)

\* conv1d::same: the contents of the output buffer after the call
same(signal, kernel, buffer) ==
    [i \in 1..Len(buffer) |-> same_elem(signal, kernel, i - 1, buffer[i])]

\* conv1d::valid panics: slice::windows panics on a window size of zero
valid_panics(signal, kernel, buffer) ==
    /\ Len(kernel) = 0
    /\ Len(buffer) = valid_result_length(Len(signal), Len(kernel))

\* faulty variant: the length of the output buffer is not checked, and zip
\* stops at the shorter of windows and buffer
valid_unchecked(signal, kernel, buffer) ==
    IF Len(signal) < Len(kernel)
    THEN [t |-> "Err", e |-> "SignalShorterThanKernel", result |-> buffer]
    ELSE [t |-> "Ok", e |-> "",
          result |-> [i \in 1..Len(buffer) |->
                         IF i <= valid_result_length(Len(signal), Len(kernel))
                         THEN fold_window(signal, kernel, i, Len(kernel))
                         ELSE buffer[i]]]

\* conv1d::valid: the outcome and the contents of the output buffer after the call
valid(signal, kernel, buffer) ==
    IF Len(signal) < Len(kernel)
    THEN [t |-> "Err", e |-> "SignalShorterThanKernel", result |-> buffer]
    ELSE IF Len(buffer) # valid_result_length(Len(signal), Len(kernel))
    THEN [t |-> "Err", e |-> "IncorrectOutputSize", result |-> buffer]
    ELSE [t |-> "Ok", e |-> "",
          result |-> [i \in 1..Len(buffer) |-> fold_window(signal, kernel, i, Len(kernel))]]

\* the number of items of input that are below x, or equal to x and earlier
\* than position i: the place of input[i] after the stable sort
SortedPlace(input, i) ==
    Cardinality({j \in 1..Len(input) :
                    input[j] < input[i] \/ (input[j] = input[i] /\ j < i)})

\* median_non_averaged: the item at index len / 2 of the sorted input
median_non_averaged(input) ==
    IF input = <<>> THEN [t |-> "Err", v |-> 0]
    ELSE [t |-> "Ok",
          v |-> input[CHOOSE i \in 1..Len(input) :
                          SortedPlace(input, i) = Len(input) \div 2]]

---------------------------------------------------------------------------
(* signals::dec::am: the transition decoder *)

\* faulty variant: a Hold or Noise pushed after its like replaces the count
TransitionState_transition_replace(self, ts) ==
    CASE self = Rising /\ ts = Rising -> Noise(0)
      [] self = Falling /\ ts = Falling -> Noise(0)
      [] OTHER -> ts

\* TransitionState::transition: what the entry `self` becomes when ts is pushed
TransitionState_transition(self, ts) ==
    CASE self = Rising /\ ts = Rising -> Noise(0)
      [] self = Falling /\ ts = Falling -> Noise(0)
      [] self.t = "Noise" /\ ts.t = "Noise" -> Noise(self.v + ts.v)
      [] self.t = "Hold" /\ ts.t = "Hold" -> Hold(self.v + ts.v)
      [] OTHER -> ts

\* State::push_transition: the stream after the call
push_transition(transitions_, ts) ==
    IF transitions_ # <<>>
    THEN [transitions_ EXCEPT ![Len(transitions_)] =
              TransitionState_transition(transitions_[Len(transitions_)], ts)]
    ELSE Append(transitions_, ts)

\* State::parse_traisition panics: Searching accepts Rising and Noise only
parse_traisition_panics(mm, ts) ==
    mm.sm = "Searching" /\ ts # Rising /\ ts.t # "Noise"

\* State::parse_traisition
parse_traisition(mm, ts) ==
    CASE mm.sm = "Searching" /\ ts = Rising ->
            [mm EXCEPT !.transitions = push_transition(mm.transitions, Rising),
                       !.pushed = Append(@, Rising),
                       !.sm = "Synchronized"]
      [] mm.sm = "Searching" -> mm
      [] mm.sm = "Synchronized" ->
            LET pushed == push_transition(mm.transitions, ts)
            IN  [mm EXCEPT !.transitions = pushed,
                           !.pushed = Append(@, ts),
                           !.sm = IF pushed[Len(pushed)].t = "Noise"
                                  THEN "Searching" ELSE "Synchronized"]

\* State::last_transition
last_transition(mm) ==
    IF mm.transitions # <<>> THEN mm.transitions[Len(mm.transitions)] ELSE Noise(0)

\* State::drain_carrier_amplitudes: drain(..amount) panics past the end
drain_carrier_amplitudes_panics(mm, amount) ==
    amount < 0 \/ amount > Len(mm.carrier_amplitudes)

drain_carrier_amplitudes(mm, amount) ==
    [mm EXCEPT !.carrier_amplitudes = SubSeq(@, amount + 1, Len(@))]

\* Parameters::transition_convolution_kernel: the rising and the falling
\* kernel, every entry multiplied by scale so that it is an integer.
\* transition_product is (transition_window_fft_sample_count *
\* transition_proportion).value(); RationalFraction::new(1, 2) * n is n / 2
\* in usize.
transition_convolution_kernel(n, transition_product) ==
    LET transition_length == IF transition_product > 1 THEN transition_product ELSE 1
        half == transition_length \div 2
        plateau_length == IF half > 1 THEN half ELSE 1
        scale == IF transition_length < n THEN n - plateau_length ELSE 1
        rising_edge ==
            [i \in 1..n |->
                IF i > transition_length THEN -1
                ELSE IF i > transition_length - plateau_length THEN -scale
                ELSE IF i <= plateau_length THEN scale
                ELSE 0]
    IN  [rising |-> rising_edge,
         falling |-> [i \in 1..n |-> -rising_edge[i]],
         plateau_length |-> plateau_length]

\* Parameters::buad_length
buad_length(cc) == Len(cc.transition_convolution_kernels.rising)

\* the largest item of a non-empty sequence of integers
MaxOf(s) == CHOOSE x \in {s[i] : i \in 1..Len(s)} : \A i \in 1..Len(s) : s[i] <= x

\* TransitionSearch::process panics: valid_result_length underflows, or
\* conv1d::valid returns Err and is unwrapped
TransitionSearch_process_panics(signals, kernel) ==
    \/ valid_result_length_overflows(Len(signals), Len(kernel))
    \/ valid_panics(signals, kernel,
                    [i \in 1..valid_result_length(Len(signals), Len(kernel)) |-> 0])
    \/ valid(signals, kernel,
             [i \in 1..valid_result_length(Len(signals), Len(kernel)) |-> 0]).t = "Err"

\* TransitionSearch::process
TransitionSearch_process(signals, kernel) ==
    LET res_len == valid_result_length(Len(signals), Len(kernel))
        convolved == valid(signals, kernel, [i \in 1..res_len |-> 0]).result
        median == median_non_averaged(convolved)
    IN  [convolved |-> convolved,
         median |-> IF median.t = "Ok" THEN median.v ELSE 0,
         max |-> IF convolved # <<>> THEN MaxOf(convolved) ELSE 0,
         signal_beg_offset |-> Len(signals) - res_len]

\* TransitionSearch::snr() > min_snr, with min_snr = num / den.  A median
\* that is not above zero is replaced by f32::EPSILON, and max / EPSILON is
\* above min_snr exactly when max is above zero.
snr_above(ts, min_snr) ==
    IF ts.median > 0
    THEN ts.max * min_snr.den > min_snr.num * ts.median
    ELSE ts.max > 0

\* TransitionSearch::max_index: the first index whose item is >= max
max_index(ts) ==
    (CHOOSE i \in 1..Len(ts.convolved) :
        /\ ts.convolved[i] >= ts.max
        /\ \A j \in 1..(i - 1) : ts.convolved[j] < ts.max) - 1

\* TransitionSearch::signal_start_idx
signal_start_idx(ts) == ts.signal_beg_offset + max_index(ts)

\* TransitionDecoder::search_transition
search_transition(cc, rising, falling) ==
    IF snr_above(rising, cc.min_snr)
    THEN [ts |-> Rising, idx |-> signal_start_idx(rising)]
    ELSE IF snr_above(falling, cc.min_snr)
    THEN [ts |-> Falling, idx |-> signal_start_idx(falling)]
    ELSE [ts |-> Hold(1), idx |-> 0]

\* TransitionDecoder::handle_synchronization panics
handle_synchronization_panics(cc, mm) ==
    /\ last_transition(mm).t = "Hold"
    /\ last_transition(mm).v >= cc.max_trainsition_distance
    /\ parse_traisition_panics(mm, Noise(1))

\* faulty variant: the run is ended one Hold after the limit
handle_synchronization_late(cc, mm) ==
    IF last_transition(mm).t = "Hold" /\ last_transition(mm).v > cc.max_trainsition_distance
    THEN parse_traisition(mm, Noise(1))
    ELSE mm

\* TransitionDecoder::handle_synchronization
handle_synchronization(cc, mm) ==
    IF last_transition(mm).t = "Hold" /\ last_transition(mm).v >= cc.max_trainsition_distance
    THEN parse_traisition(mm, Noise(1))
    ELSE mm

\* the first buad_length() carrier amplitudes, where the slice does not panic
next_baud_window(cc, mm) == SubSeq(mm.carrier_amplitudes, 1, buad_length(cc))

\* the result of search_transition in next_baud
next_baud_transition(cc, mm) ==
    search_transition(cc,
        TransitionSearch_process(next_baud_window(cc, mm),
                                 cc.transition_convolution_kernels.rising),
        TransitionSearch_process(next_baud_window(cc, mm),
                                 cc.transition_convolution_kernels.falling))

\* the state of next_baud after drain_carrier_amplitudes
next_baud_drained(cc, mm) ==
    drain_carrier_amplitudes(mm, buad_length(cc) + next_baud_transition(cc, mm).idx - 1)

\* TransitionDecoder::next_baud panics: the slice [..buad_length()] is out of
\* range, process panics, the drain amount underflows or is past the end of
\* carrier_amplitudes, or parse_traisition panics
next_baud_panics(cc, mm) ==
    \/ buad_length(cc) > Len(mm.carrier_amplitudes)
    \/ TransitionSearch_process_panics(next_baud_window(cc, mm),
                                       cc.transition_convolution_kernels.rising)
    \/ drain_carrier_amplitudes_panics(mm,
            buad_length(cc) + next_baud_transition(cc, mm).idx - 1)
    \/ parse_traisition_panics(next_baud_drained(cc, mm), next_baud_transition(cc, mm).ts)
    \/ handle_synchronization_panics(cc,
            parse_traisition(next_baud_drained(cc, mm), next_baud_transition(cc, mm).ts))

\* TransitionDecoder::next_baud
next_baud(cc, mm) ==
    handle_synchronization(cc,
        parse_traisition(next_baud_drained(cc, mm), next_baud_transition(cc, mm).ts))

\* TransitionDecoder::search panics
search_panics(cc, mm) ==
    TransitionSearch_process_panics(mm.carrier_amplitudes,
                                    cc.transition_convolution_kernels.rising)

\* faulty variant: a hit pushes Rising and leaves the amplitudes in place
search_no_drain(cc, mm) ==
    LET rising == TransitionSearch_process(mm.carrier_amplitudes,
                                           cc.transition_convolution_kernels.rising)
    IN  IF snr_above(rising, cc.min_snr)
        THEN parse_traisition(mm, Rising)
        ELSE mm

\* TransitionDecoder::search
search(cc, mm) ==
    LET rising == TransitionSearch_process(mm.carrier_amplitudes,
                                           cc.transition_convolution_kernels.rising)
    IN  IF snr_above(rising, cc.min_snr)
        THEN parse_traisition(drain_carrier_amplitudes(mm, signal_start_idx(rising)), Rising)
        ELSE mm

\* TransitionDecoder::parse panics
td_parse_panics(cc, mm) ==
    IF mm.sm = "Searching" THEN search_panics(cc, mm) ELSE next_baud_panics(cc, mm)

\* TransitionDecoder::parse
td_parse(cc, mm) ==
    IF mm.sm = "Searching" THEN search(cc, mm) ELSE next_baud(cc, mm)

\* faulty variant: every queued sample is promoted, whole windows or not
dequeue_realtime_samples_all(cc, mm) ==
    [mm EXCEPT !.backlog = @ \o mm.realtime_backlog,
               !.realtime_backlog = <<>>]

\* faulty variant: the window-aligned block is taken from the back of the queue
dequeue_realtime_samples_back(cc, mm) ==
    LET samples_needed == cc.fft_window_sc
        samples_to_take == (Len(mm.realtime_backlog) \div samples_needed) * samples_needed
        rest == Len(mm.realtime_backlog) - samples_to_take
    IN  [mm EXCEPT !.backlog = @ \o SubSeq(mm.realtime_backlog, rest + 1, Len(mm.realtime_backlog)),
                   !.realtime_backlog = SubSeq(@, 1, rest)]

\* TransitionDecoder::dequeue_realtime_samples
dequeue_realtime_samples(cc, mm) ==
    LET samples_needed == cc.fft_window_sc
        samples_to_take == (Len(mm.realtime_backlog) \div samples_needed) * samples_needed
    IN  [mm EXCEPT !.backlog = @ \o SubSeq(mm.realtime_backlog, 1, samples_to_take),
                   !.realtime_backlog = SubSeq(@, samples_to_take + 1, Len(@))]

\* the number of windows sample_backlog_to_carrier_amplitudes drains: the
\* loop runs while samples.len() > samples_needed
windows_drained(cc, mm) ==
    IF Len(mm.backlog) > cc.fft_window_sc
    THEN (Len(mm.backlog) - 1) \div cc.fft_window_sc
    ELSE 0

\* TransitionDecoder::sample_backlog_to_carrier_amplitudes; amplitudes[i] is
\* the carrier amplitude the FFT yields for the i-th window drained
sample_backlog_to_carrier_amplitudes(cc, mm, amplitudes) ==
    [mm EXCEPT !.backlog = SubSeq(@, Len(amplitudes) * cc.fft_window_sc + 1, Len(@)),
               !.carrier_amplitudes = @ \o amplitudes]

\* State::new; pushed is the history of the transitions handed to
\* push_transition, in order
TdState_new ==
    [realtime_backlog |-> <<>>,
     backlog |-> <<>>,
     carrier_amplitudes |-> <<>>,
     transitions |-> <<>>,
     sm |-> "Searching",
     pushed |-> <<>>]

\* the lengths of the sample blocks handed to append_samples
AppendLengths == {0, 1, 2, 3}

\* the carrier amplitudes the FFT yields for a window: carrier absent, present
AmplitudeValues == {0, 1}

\* the transitions handed to State::push_transition and State::parse_traisition
PushAlphabet == {Rising, Falling, Hold(1), Hold(2), Noise(1), Noise(2)}

\* the outcome of the last call on the decoder
TdReturned(op) == [op |-> op, t |-> "Returned"]
TdPanic(op) == [op |-> op, t |-> "Panic"]
TdNoCall == [op |-> "none", t |-> "NoCall"]

\* the samples handed to append_samples are numbered in the order they are made
NewSamples(n) == [i \in 1..n |-> td_appended + i]

\* TransitionDecoder::append_samples
append_samples ==
    /\ td_ret.t # "Panic"
    /\ \E n \in AppendLengths :
         /\ td_appended + n <= MaxSamples
         /\ td_m' = [td_m EXCEPT !.realtime_backlog = @ \o NewSamples(n)]
         /\ td_appended' = td_appended + n
    /\ td_ret' = TdReturned("append_samples")
    /\ UNCHANGED <<td_c, thvars>>
    /\ UNCHANGED <<encvars, decvars, amvars, fnvars>>

\* TransitionDecoder::dequeue_realtime_samples, called on its own
dequeue_realtime_samples_call ==
    /\ td_ret.t # "Panic"
    /\ td_m' = dequeue_realtime_samples(td_c, td_m)
    /\ td_ret' = TdReturned("dequeue_realtime_samples")
    /\ UNCHANGED <<td_c, td_appended, thvars>>
    /\ UNCHANGED <<encvars, decvars, amvars, fnvars>>

\* TransitionDecoder::sample_backlog_to_carrier_amplitudes, called on its own
sample_backlog_to_carrier_amplitudes_call ==
    /\ td_ret.t # "Panic"
    /\ \E amplitudes \in [1..windows_drained(td_c, td_m) -> AmplitudeValues] :
         td_m' = sample_backlog_to_carrier_amplitudes(td_c, td_m, amplitudes)
    /\ td_ret' = TdReturned("sample_backlog_to_carrier_amplitudes")
    /\ UNCHANGED <<td_c, td_appended, thvars>>
    /\ UNCHANGED <<encvars, decvars, amvars, fnvars>>

\* TransitionDecoder::process
process ==
    /\ td_ret.t # "Panic"
    /\ LET dequeued == dequeue_realtime_samples(td_c, td_m)
       IN  \E amplitudes \in [1..windows_drained(td_c, dequeued) -> AmplitudeValues] :
             td_m' = sample_backlog_to_carrier_amplitudes(td_c, dequeued, amplitudes)
    /\ td_ret' = TdReturned("process")
    /\ UNCHANGED <<td_c, td_appended, thvars>>
    /\ UNCHANGED <<encvars, decvars, amvars, fnvars>>

\* TransitionDecoder::parse
TransitionDecoder_parse ==
    /\ td_ret.t # "Panic"
    /\ Len(td_m.pushed) < MaxPushes
    /\ IF td_parse_panics(td_c, td_m)
       THEN /\ td_ret' = TdPanic("parse")
            /\ UNCHANGED td_m
       ELSE /\ td_m' = td_parse(td_c, td_m)
            /\ td_ret' = TdReturned("parse")
    /\ UNCHANGED <<td_c, td_appended, thvars>>
    /\ UNCHANGED <<encvars, decvars, amvars, fnvars>>

\* State::push_transition, called with any transition
State_push_transition ==
    /\ td_ret.t # "Panic"
    /\ Len(td_m.pushed) < MaxPushes
    /\ \E ts \in PushAlphabet :
         td_m' = [td_m EXCEPT !.transitions = push_transition(@, ts),
                              !.pushed = Append(@, ts)]
    /\ td_ret' = TdReturned("push_transition")
    /\ UNCHANGED <<td_c, td_appended, thvars>>
    /\ UNCHANGED <<encvars, decvars, amvars, fnvars>>

\* State::parse_traisition, called with any transition
State_parse_traisition ==
    /\ td_ret.t # "Panic"
    /\ Len(td_m.pushed) < MaxPushes
    /\ \E ts \in PushAlphabet :
         IF parse_traisition_panics(td_m, ts)
         THEN /\ td_ret' = TdPanic("parse_traisition")
              /\ UNCHANGED td_m
         ELSE /\ td_m' = parse_traisition(td_m, ts)
              /\ td_ret' = TdReturned("parse_traisition")
    /\ UNCHANGED <<td_c, td_appended, thvars>>
    /\ UNCHANGED <<encvars, decvars, amvars, fnvars>>

---------------------------------------------------------------------------
(* signals::dec::am: append_samples on producer threads against the owner's
   dequeue_realtime_samples and sample_backlog_to_carrier_amplitudes, one
   step per lock, unlock and queue operation *)

Producers == {"p1", "p2"}

\* the lengths of the blocks the producer threads append
ThBlockLengths == {1, 2}

\* the samples of a producer's next block: every sample of the run is distinct
\* and names its producer
ProducerBase(p) == IF p = "p1" THEN 10 ELSE 20
ProducerSamples(p, made, n) == [i \in 1..n |-> ProducerBase(p) + made + i]

\* faulty variant: the mutex is handed out while it is held
mutex_free_always(holder) == TRUE

\* Mutex::lock returns once no thread holds the mutex
mutex_free(holder) == holder = "free"

\* faulty variant: the guard is leaked and the mutex stays held
guard_leak(mutexes, name) == mutexes

\* MutexGuard::drop at the end of the guard's scope
guard_drop(mutexes, name) == [mutexes EXCEPT ![name] = "free"]

\* a producer thread enters append_samples with a block of samples
producer_call(p) ==
    /\ th_prod[p].pc = "idle"
    /\ Len(th_order) + Cardinality({q \in Producers : th_prod[q].pc = "lock"}) < MaxBlocks
    /\ \E n \in ThBlockLengths :
         th_prod' = [th_prod EXCEPT ![p] =
                        [pc |-> "lock",
                         samples |-> ProducerSamples(p, th_prod[p].made, n),
                         i |-> 0,
                         made |-> th_prod[p].made + n,
                         blocks |-> th_prod[p].blocks + 1]]
    /\ UNCHANGED <<th_mutex, th_owner, th_order, th_consumed>>
    /\ UNCHANGED <<td_c, td_m, td_ret, td_appended>>
    /\ UNCHANGED <<encvars, decvars, amvars, fnvars>>

\* append_samples: self.m.realtime_backlog.lock().unwrap()
producer_lock(p) ==
    /\ th_prod[p].pc = "lock"
    /\ mutex_free(th_mutex.realtime_backlog)
    /\ th_mutex' = [th_mutex EXCEPT !.realtime_backlog = p]
    /\ th_prod' = [th_prod EXCEPT ![p].pc = "extend"]
    /\ th_order' = Append(th_order, th_prod[p].samples)
    /\ UNCHANGED <<th_owner, th_consumed>>
    /\ UNCHANGED <<td_c, td_m, td_ret, td_appended>>
    /\ UNCHANGED <<encvars, decvars, amvars, fnvars>>

\* append_samples: extend pushes the samples of the block one by one
producer_extend(p) ==
    /\ th_prod[p].pc = "extend"
    /\ th_prod[p].i < Len(th_prod[p].samples)
    /\ td_m' = [td_m EXCEPT !.realtime_backlog =
                                Append(@, th_prod[p].samples[th_prod[p].i + 1])]
    /\ th_prod' = [th_prod EXCEPT ![p].i = @ + 1]
    /\ td_appended' = td_appended + 1
    /\ UNCHANGED <<th_mutex, th_owner, th_order, th_consumed>>
    /\ UNCHANGED <<td_c, td_ret>>
    /\ UNCHANGED <<encvars, decvars, amvars, fnvars>>

\* append_samples: the guard is dropped at the end of the statement
producer_unlock(p) ==
    /\ th_prod[p].pc = "extend"
    /\ th_prod[p].i = Len(th_prod[p].samples)
    /\ th_mutex' = guard_drop(th_mutex, "realtime_backlog")
    /\ th_prod' = [th_prod EXCEPT ![p].pc = "idle"]
    /\ UNCHANGED <<th_owner, th_order, th_consumed>>
    /\ UNCHANGED <<td_c, td_m, td_ret, td_appended>>
    /\ UNCHANGED <<encvars, decvars, amvars, fnvars>>

\* the owner thread enters dequeue_realtime_samples or
\* sample_backlog_to_carrier_amplitudes
owner_call ==
    /\ th_owner.pc = "idle"
    /\ \E first \in {"dequeue_lock_source", "sample_lock"} :
         th_owner' = [th_owner EXCEPT !.pc = first]
    /\ UNCHANGED <<th_mutex, th_prod, th_order, th_consumed>>
    /\ UNCHANGED <<td_c, td_m, td_ret, td_appended>>
    /\ UNCHANGED <<encvars, decvars, amvars, fnvars>>

\* dequeue_realtime_samples: let mut source = self.m.realtime_backlog.lock().unwrap()
owner_dequeue_lock_source ==
    /\ th_owner.pc = "dequeue_lock_source"
    /\ mutex_free(th_mutex.realtime_backlog)
    /\ th_mutex' = [th_mutex EXCEPT !.realtime_backlog = "owner"]
    /\ th_owner' = [th_owner EXCEPT !.pc = "dequeue_lock_target"]
    /\ UNCHANGED <<th_prod, th_order, th_consumed>>
    /\ UNCHANGED <<td_c, td_m, td_ret, td_appended>>
    /\ UNCHANGED <<encvars, decvars, amvars, fnvars>>

\* dequeue_realtime_samples: let mut target = self.m.backlog.lock().unwrap()
owner_dequeue_lock_target ==
    /\ th_owner.pc = "dequeue_lock_target"
    /\ mutex_free(th_mutex.backlog)
    /\ th_mutex' = [th_mutex EXCEPT !.backlog = "owner"]
    /\ th_owner' = [th_owner EXCEPT !.pc = "dequeue_move"]
    /\ UNCHANGED <<th_prod, th_order, th_consumed>>
    /\ UNCHANGED <<td_c, td_m, td_ret, td_appended>>
    /\ UNCHANGED <<encvars, decvars, amvars, fnvars>>

\* dequeue_realtime_samples: the move under both locks, then both guards drop
owner_dequeue_move ==
    /\ th_owner.pc = "dequeue_move"
    /\ td_m' = dequeue_realtime_samples(td_c, td_m)
    /\ th_mutex' = guard_drop(guard_drop(th_mutex, "backlog"), "realtime_backlog")
    /\ th_owner' = [th_owner EXCEPT !.pc = "idle"]
    /\ td_ret' = TdReturned("dequeue_realtime_samples")
    /\ UNCHANGED <<th_prod, th_order, th_consumed>>
    /\ UNCHANGED <<td_c, td_appended>>
    /\ UNCHANGED <<encvars, decvars, amvars, fnvars>>

\* sample_backlog_to_carrier_amplitudes: let mut samples = self.m.backlog.lock().unwrap()
owner_sample_lock ==
    /\ th_owner.pc = "sample_lock"
    /\ mutex_free(th_mutex.backlog)
    /\ th_mutex' = [th_mutex EXCEPT !.backlog = "owner"]
    /\ th_owner' = [th_owner EXCEPT !.pc = "sample_loop"]
    /\ UNCHANGED <<th_prod, th_order, th_consumed>>
    /\ UNCHANGED <<td_c, td_m, td_ret, td_appended>>
    /\ UNCHANGED <<encvars, decvars, amvars, fnvars>>

\* sample_backlog_to_carrier_amplitudes: one turn of the while loop, or the
\* return that drops the guard
owner_sample_loop ==
    /\ th_owner.pc = "sample_loop"
    /\ IF Len(td_m.backlog) > td_c.fft_window_sc
       THEN /\ \E amplitude \in AmplitudeValues :
                 td_m' = sample_backlog_to_carrier_amplitudes(td_c, td_m, <<amplitude>>)
            /\ th_consumed' = th_consumed \o SubSeq(td_m.backlog, 1, td_c.fft_window_sc)
            /\ UNCHANGED <<th_mutex, th_owner, td_ret>>
       ELSE /\ th_mutex' = guard_drop(th_mutex, "backlog")
            /\ th_owner' = [th_owner EXCEPT !.pc = "idle"]
            /\ td_ret' = TdReturned("sample_backlog_to_carrier_amplitudes")
            /\ UNCHANGED <<td_m, th_consumed>>
    /\ UNCHANGED <<th_prod, th_order>>
    /\ UNCHANGED <<td_c, td_appended>>
    /\ UNCHANGED <<encvars, decvars, amvars, fnvars>>

\* the calls a thread and the owner have made before a further call
ThreadCallNumbers == {0, 1}
OwnerCallNumbers == {0, 1}

\* a thread that has calls left enters append_samples
thread_append_call(p) ==
    /\ th_prod[p].blocks \in ThreadCallNumbers
    /\ producer_call(p)

\* a thread that has calls left enters dequeue_realtime_samples
thread_dequeue_call(p) ==
    /\ th_prod[p].pc = "idle"
    /\ th_prod[p].blocks \in ThreadCallNumbers
    /\ th_prod' = [th_prod EXCEPT ![p].pc = "dequeue_lock_source", ![p].blocks = @ + 1]
    /\ UNCHANGED <<th_mutex, th_owner, th_order, th_consumed>>
    /\ UNCHANGED <<td_c, td_m, td_ret, td_appended>>
    /\ UNCHANGED <<encvars, decvars, amvars, fnvars>>

\* the owner, if it has calls left, enters dequeue_realtime_samples or
\* sample_backlog_to_carrier_amplitudes
owner_call_counted ==
    /\ th_owner.calls \in OwnerCallNumbers
    /\ th_owner.pc = "idle"
    /\ \E first \in {"dequeue_lock_source", "sample_lock"} :
         th_owner' = [pc |-> first, calls |-> th_owner.calls + 1]
    /\ UNCHANGED <<th_mutex, th_prod, th_order, th_consumed>>
    /\ UNCHANGED <<td_c, td_m, td_ret, td_appended>>
    /\ UNCHANGED <<encvars, decvars, amvars, fnvars>>

\* dequeue_realtime_samples: let mut source = self.m.realtime_backlog.lock().unwrap()
thread_dequeue_lock_source(p) ==
    /\ th_prod[p].pc = "dequeue_lock_source"
    /\ mutex_free(th_mutex.realtime_backlog)
    /\ th_mutex' = [th_mutex EXCEPT !.realtime_backlog = p]
    /\ th_prod' = [th_prod EXCEPT ![p].pc = "dequeue_lock_target"]
    /\ UNCHANGED <<th_owner, th_order, th_consumed>>
    /\ UNCHANGED <<td_c, td_m, td_ret, td_appended>>
    /\ UNCHANGED <<encvars, decvars, amvars, fnvars>>

\* dequeue_realtime_samples: let mut target = self.m.backlog.lock().unwrap()
thread_dequeue_lock_target(p) ==
    /\ th_prod[p].pc = "dequeue_lock_target"
    /\ mutex_free(th_mutex.backlog)
    /\ th_mutex' = [th_mutex EXCEPT !.backlog = p]
    /\ th_prod' = [th_prod EXCEPT ![p].pc = "dequeue_move"]
    /\ UNCHANGED <<th_owner, th_order, th_consumed>>
    /\ UNCHANGED <<td_c, td_m, td_ret, td_appended>>
    /\ UNCHANGED <<encvars, decvars, amvars, fnvars>>

\* dequeue_realtime_samples: the move under both locks, then both guards drop
thread_dequeue_move(p) ==
    /\ th_prod[p].pc = "dequeue_move"
    /\ td_m' = dequeue_realtime_samples(td_c, td_m)
    /\ th_mutex' = guard_drop(guard_drop(th_mutex, "backlog"), "realtime_backlog")
    /\ th_prod' = [th_prod EXCEPT ![p].pc = "idle"]
    /\ td_ret' = TdReturned("dequeue_realtime_samples")
    /\ UNCHANGED <<th_owner, th_order, th_consumed>>
    /\ UNCHANGED <<td_c, td_appended>>
    /\ UNCHANGED <<encvars, decvars, amvars, fnvars>>

---------------------------------------------------------------------------
(* utils::conv1d called on its own *)

FnNoCall == [op |-> "none", t |-> "NoCall", e |-> "", result |-> <<>>]
FnPanic(op) == [op |-> op, t |-> "Panic", e |-> "", result |-> <<>>]

\* conv1d::same(signal, kernel, result)
same_call ==
    /\ fn_ret = FnNoCall
    /\ fn_ret' = IF same_panics(fn_args.signal, fn_args.kernel, fn_args.result)
                 THEN FnPanic("same")
                 ELSE [op |-> "same", t |-> "Returned", e |-> "",
                       result |-> same(fn_args.signal, fn_args.kernel, fn_args.result)]
    /\ UNCHANGED fn_args
    /\ UNCHANGED <<encvars, decvars, amvars, tdvars>>

\* conv1d::valid(signal, kernel, result)
valid_call ==
    /\ fn_ret = FnNoCall
    /\ fn_ret' = IF valid_panics(fn_args.signal, fn_args.kernel, fn_args.result)
                 THEN FnPanic("valid")
                 ELSE LET r == valid(fn_args.signal, fn_args.kernel, fn_args.result)
                      IN  [op |-> "valid", t |-> r.t, e |-> r.e, result |-> r.result]
    /\ UNCHANGED fn_args
    /\ UNCHANGED <<encvars, decvars, amvars, tdvars>>

---------------------------------------------------------------------------
(* The encode -> transitions -> decode pipeline *)

\* the collected symbols, closed by Complete, are mapped to transitions
to_transitions ==
    /\ last = None
    /\ transitions.t = "NotRun"
    /\ transitions' = nrzi_to_transition_states(Append(out, Complete))
    /\ UNCHANGED <<c, m, out, last>>
    /\ UNCHANGED decvars
    /\ UNCHANGED <<amvars, tdvars, fnvars>>

\* NRZI::parse(&transitions, stuff_bit_after, preamble) is called
parse_call ==
    /\ transitions.t = "Ok"
    /\ pc = "idle"
    /\ frame' = transitions.v
    /\ bit_stuffing' = c.stuff_bit_after
    /\ dpreamble' = c.preamble
    /\ idx' = 0
    /\ sm' = Begin(0)
    /\ sof' = 0
    /\ result' = BitVec_new
    /\ pc' = "loop"
    /\ UNCHANGED ret
    /\ UNCHANGED encvars
    /\ UNCHANGED <<amvars, tdvars, fnvars>>

---------------------------------------------------------------------------
(* Specifications *)

NotRun == [t |-> "NotRun", v |-> <<>>]

DecIdle ==
    /\ frame = <<>>
    /\ bit_stuffing = 0
    /\ dpreamble = 0
    /\ idx = 0
    /\ sm = Begin(0)
    /\ sof = 0
    /\ result = BitVec_new
    /\ pc = "idle"
    /\ ret = RetNone

\* the shaper before NRZI::new
AmIdle ==
    /\ am_c = [transition_width |-> 1, baud_length |-> 1, highlow |-> <<1, 0>>]
    /\ am_m = NRZIState_init([payload |-> <<>>, stuff_bit_after |-> 1, preamble |-> 0])
    /\ am_dt = 0
    /\ am_ret = AmNoCall
    /\ am_oks = 0
    /\ am_dts = {}

\* no free function is under call
FnIdle ==
    /\ fn_args = [signal |-> <<>>, kernel |-> <<>>, result |-> <<>>]
    /\ fn_ret = FnNoCall

\* no thread is inside a method of the transition decoder
ThIdle ==
    /\ th_mutex = [realtime_backlog |-> "free", backlog |-> "free"]
    /\ th_prod = [p \in Producers |->
                    [pc |-> "idle", samples |-> <<>>, i |-> 0, made |-> 0, blocks |-> 0]]
    /\ th_owner = [pc |-> "idle"]
    /\ th_order = <<>>
    /\ th_consumed = <<>>

\* the transition decoder before TransitionDecoder::new
TdIdle ==
    /\ td_c = [fft_window_sc |-> 1,
               max_trainsition_distance |-> 1,
               transition_convolution_kernels |-> transition_convolution_kernel(1, 1),
               min_snr |-> [num |-> 1, den |-> 1]]
    /\ td_m = TdState_new
    /\ td_ret = TdNoCall
    /\ td_appended = 0
    /\ ThIdle

\* the encoder alone, stuff_bit_after and preamble over the small and the
\* largest u8 values
InitEnc ==
    /\ c \in SmallParameters \cup EdgeParameters
    /\ m = State_init
    /\ out = <<>>
    /\ last = NoCall
    /\ transitions = NotRun
    /\ DecIdle
    /\ AmIdle
    /\ TdIdle
    /\ FnIdle

NextEnc == next

SpecEnc == InitEnc /\ [][NextEnc]_vars

\* the caller goes on calling next()
SpecEncFair == SpecEnc /\ WF_vars(next)

\* encoder, symbol-to-transition map and byte decoder in sequence
Init ==
    /\ c \in SmallParameters
    /\ m = State_init
    /\ out = <<>>
    /\ last = NoCall
    /\ transitions = NotRun
    /\ DecIdle
    /\ AmIdle
    /\ TdIdle
    /\ FnIdle

Next == next \/ to_transitions \/ parse_call \/ parse_iteration \/ parse_return

Spec == Init /\ [][Next]_vars

\* the byte decoder alone, on any frame over the transition alphabet
\* (Hold counts and stuffing budgets include a whole byte of zeros)
HoldCounts == (0..MaxHold) \cup {ByteBits}
DecStuffValues == (1..MaxStuffBitAfter) \cup {ByteBits}
TransitionAlphabet == {Rising, Falling, Noise(1)} \cup {Hold(h) : h \in HoldCounts}

InitDec ==
    /\ c = [payload |-> <<>>, stuff_bit_after |-> 1, preamble |-> 0]
    /\ m = State_init
    /\ out = <<>>
    /\ last = NoCall
    /\ transitions = NotRun
    /\ frame \in SeqsUpTo(TransitionAlphabet, MaxFrameLen)
    /\ bit_stuffing \in DecStuffValues
    /\ dpreamble \in 0..MaxPreamble
    /\ idx = 0
    /\ sm = Begin(0)
    /\ sof = 0
    /\ result = BitVec_new
    /\ pc = "loop"
    /\ ret = RetNone
    /\ AmIdle
    /\ TdIdle
    /\ FnIdle

NextDec == parse_iteration \/ parse_return

SpecDec == InitDec /\ [][NextDec]_vars

\* the AM shaper alone: encoder parameters with payloads of at most one
\* byte (0b0100_0010 is the byte of the shaper's unit test, 0b1001_1000 ends
\* in a run of zeros), every transition_width up to baud_length, amplitudes
\* of both orders and signs
AmPayloads == {<<>>, <<66>>, <<152>>}
AmStuffBitAfter == {1, 3}
AmPreambles == {0, 2}
HighLowPairs == {<<1, 0>>, <<-1, 2>>}

AmParameters ==
    [payload : AmPayloads, stuff_bit_after : AmStuffBitAfter, preamble : AmPreambles]

NRZIConsts ==
    {cc \in [transition_width : 1..MaxBaudLength,
             baud_length : 2..MaxBaudLength,
             highlow : HighLowPairs] : cc.transition_width <= cc.baud_length}

InitAm ==
    /\ c = [payload |-> <<>>, stuff_bit_after |-> 1, preamble |-> 0]
    /\ m = State_init
    /\ out = <<>>
    /\ last = NoCall
    /\ transitions = NotRun
    /\ DecIdle
    /\ TdIdle
    /\ FnIdle
    /\ am_c \in NRZIConsts
    /\ \E nrzi_params \in AmParameters : am_m = NRZIState_init(nrzi_params)
    /\ am_dt = 0
    /\ am_ret = AmNoCall
    /\ am_oks = 0
    /\ am_dts = {}

NextAm == advance_with

SpecAm == InitAm /\ [][NextAm]_vars

\* the shaper over frames with the largest stuff_bit_after as well, at a
\* baud of two ticks
AmEdgeParameters ==
    [payload : AmPayloads \ {<<>>}, stuff_bit_after : {U8Modulus - 1}, preamble : {0}]

InitAmEdge ==
    /\ c = [payload |-> <<>>, stuff_bit_after |-> 1, preamble |-> 0]
    /\ m = State_init
    /\ out = <<>>
    /\ last = NoCall
    /\ transitions = NotRun
    /\ DecIdle
    /\ TdIdle
    /\ FnIdle
    /\ am_c \in {cc \in NRZIConsts : cc.baud_length = 2}
    /\ \E nrzi_params \in AmParameters \cup AmEdgeParameters :
         am_m = NRZIState_init(nrzi_params)
    /\ am_dt = 0
    /\ am_ret = AmNoCall
    /\ am_oks = 0
    /\ am_dts = {}

SpecAmEdge == InitAmEdge /\ [][NextAm]_vars

\* the transition decoder: window sizes of one to three samples, kernels of
\* two and three windows, min_snr below and above one
FftWindowScs == {1, 2, 3}
KernelShapes == {<<2, 2>>, <<3, 2>>}
MinSnrs == {[num |-> 1, den |-> 2], [num |-> 2, den |-> 1]}

TdParameters ==
    [fft_window_sc : FftWindowScs,
     max_trainsition_distance : {2},
     transition_convolution_kernels :
         {transition_convolution_kernel(k[1], k[2]) : k \in KernelShapes},
     min_snr : MinSnrs]

\* the same with runs of one transitionless window
TdShortRunParameters == {[cc EXCEPT !.max_trainsition_distance = 1] : cc \in TdParameters}

\* TransitionDecoder::new
InitTd ==
    /\ td_c \in TdParameters \cup TdShortRunParameters
    /\ td_m = TdState_new
    /\ td_ret = TdNoCall
    /\ td_appended = 0
    /\ ThIdle
    /\ FnIdle
    /\ c = [payload |-> <<>>, stuff_bit_after |-> 1, preamble |-> 0]
    /\ m = State_init
    /\ out = <<>>
    /\ last = NoCall
    /\ transitions = NotRun
    /\ DecIdle
    /\ AmIdle

NextTd ==
    \/ append_samples
    \/ dequeue_realtime_samples_call
    \/ sample_backlog_to_carrier_amplitudes_call
    \/ process
    \/ TransitionDecoder_parse

SpecTd == InitTd /\ [][NextTd]_vars

\* State::new, then push_transition and parse_traisition with any transitions
InitState ==
    /\ td_c \in {cc \in TdParameters : cc.fft_window_sc = 1 /\ cc.min_snr.num = 1}
    /\ td_m = TdState_new
    /\ td_ret = TdNoCall
    /\ td_appended = 0
    /\ ThIdle
    /\ FnIdle
    /\ c = [payload |-> <<>>, stuff_bit_after |-> 1, preamble |-> 0]
    /\ m = State_init
    /\ out = <<>>
    /\ last = NoCall
    /\ transitions = NotRun
    /\ DecIdle
    /\ AmIdle

NextState == State_push_transition \/ State_parse_traisition

SpecState == InitState /\ [][NextState]_vars

\* producer threads and the owner thread on one decoder, windows of one and
\* two samples
InitThreads ==
    /\ td_c \in {cc \in TdParameters :
                    /\ cc.fft_window_sc \in {1, 2}
                    /\ cc.min_snr.num = 1
                    /\ buad_length(cc) = 2}
    /\ td_m = TdState_new
    /\ td_ret = TdNoCall
    /\ td_appended = 0
    /\ ThIdle
    /\ FnIdle
    /\ c = [payload |-> <<>>, stuff_bit_after |-> 1, preamble |-> 0]
    /\ m = State_init
    /\ out = <<>>
    /\ last = NoCall
    /\ transitions = NotRun
    /\ DecIdle
    /\ AmIdle

NextThreads ==
    \/ \E p \in Producers : producer_call(p)
    \/ \E p \in Producers : producer_lock(p)
    \/ \E p \in Producers : producer_extend(p)
    \/ \E p \in Producers : producer_unlock(p)
    \/ owner_call
    \/ owner_dequeue_lock_source
    \/ owner_dequeue_lock_target
    \/ owner_dequeue_move
    \/ owner_sample_lock
    \/ owner_sample_loop

SpecThreads == InitThreads /\ [][NextThreads]_vars

\* threads sharing &TransitionDecoder: each makes two calls, append_samples
\* or dequeue_realtime_samples (both take &self), next to two calls of the
\* owner, under a scheduler that lets a thread step if it can step for good
InitLocks ==
    /\ td_c \in {cc \in TdParameters :
                    /\ cc.fft_window_sc = 1
                    /\ cc.min_snr.num = 1
                    /\ buad_length(cc) = 2}
    /\ td_m = TdState_new
    /\ td_ret = TdNoCall
    /\ td_appended = 0
    /\ th_mutex = [realtime_backlog |-> "free", backlog |-> "free"]
    /\ th_prod = [p \in Producers |->
                    [pc |-> "idle", samples |-> <<>>, i |-> 0, made |-> 0, blocks |-> 0]]
    /\ th_owner = [pc |-> "idle", calls |-> 0]
    /\ th_order = <<>>
    /\ th_consumed = <<>>
    /\ FnIdle
    /\ c = [payload |-> <<>>, stuff_bit_after |-> 1, preamble |-> 0]
    /\ m = State_init
    /\ out = <<>>
    /\ last = NoCall
    /\ transitions = NotRun
    /\ DecIdle
    /\ AmIdle

NextLocks ==
    \/ \E p \in Producers : thread_append_call(p)
    \/ \E p \in Producers : producer_lock(p)
    \/ \E p \in Producers : producer_extend(p)
    \/ \E p \in Producers : producer_unlock(p)
    \/ \E p \in Producers : thread_dequeue_call(p)
    \/ \E p \in Producers : thread_dequeue_lock_source(p)
    \/ \E p \in Producers : thread_dequeue_lock_target(p)
    \/ \E p \in Producers : thread_dequeue_move(p)
    \/ owner_call_counted
    \/ owner_dequeue_lock_source
    \/ owner_dequeue_lock_target
    \/ owner_dequeue_move
    \/ owner_sample_lock
    \/ owner_sample_loop

FairLocks ==
    /\ \A p \in Producers : WF_vars(producer_lock(p))
    /\ \A p \in Producers : WF_vars(producer_extend(p))
    /\ \A p \in Producers : WF_vars(producer_unlock(p))
    /\ \A p \in Producers : WF_vars(thread_dequeue_lock_source(p))
    /\ \A p \in Producers : WF_vars(thread_dequeue_lock_target(p))
    /\ \A p \in Producers : WF_vars(thread_dequeue_move(p))
    /\ WF_vars(owner_dequeue_lock_source)
    /\ WF_vars(owner_dequeue_lock_target)
    /\ WF_vars(owner_dequeue_move)
    /\ WF_vars(owner_sample_lock)
    /\ WF_vars(owner_sample_loop)

SpecLocks == InitLocks /\ [][NextLocks]_vars /\ FairLocks

\* conv1d::same and conv1d::valid on any signal, kernel and output buffer;
\* the buffer holds zeros or what an earlier use left in it
ConvValues == {-1, 1}
BufferValues == {0, 5}

InitConv ==
    /\ fn_args \in [signal : SeqsUpTo(ConvValues, MaxSignalLen),
                    kernel : SeqsUpTo(ConvValues, MaxSignalLen),
                    result : SeqsUpTo(BufferValues, MaxSignalLen + 1)]
    /\ fn_ret = FnNoCall
    /\ c = [payload |-> <<>>, stuff_bit_after |-> 1, preamble |-> 0]
    /\ m = State_init
    /\ out = <<>>
    /\ last = NoCall
    /\ transitions = NotRun
    /\ DecIdle
    /\ AmIdle
    /\ TdIdle

NextConv == same_call \/ valid_call

SpecConv == InitConv /\ [][NextConv]_vars

---------------------------------------------------------------------------
(* utils::WindowedWeightedAverage<T> with T a binary floating-point type:   *)
(* a number is mant * 2^exp with a mantissa of MantissaBits bits, every     *)
(* operation rounds its exact result to the nearest such number, ties to   *)
(* the even mantissa (the arithmetic of f32 at a smaller width, exponent   *)
(* range unbounded)                                                        *)

Abs(n) == IF n < 0 THEN -n ELSE n

RECURSIVE BitLength(_)
BitLength(n) == IF n = 0 THEN 0 ELSE 1 + BitLength(n \div 2)

\* the exact value mant_ * 2^exp_ rounded to MantissaBits bits
FloatRound(mant_, exp_) ==
    LET a == Abs(mant_)
        sign == IF mant_ < 0 THEN -1 ELSE 1
        shift == BitLength(a) - MantissaBits
    IN  IF a = 0 THEN [mant |-> 0, exp |-> 0]
        ELSE IF shift <= 0 THEN [mant |-> mant_ * Pow2(-shift), exp |-> exp_ + shift]
        ELSE LET q == a \div Pow2(shift)
                 r == a % Pow2(shift)
                 half == Pow2(shift - 1)
                 up == r > half \/ (r = half /\ q % 2 = 1)
                 q2 == IF up THEN q + 1 ELSE q
             IN  IF q2 = Pow2(MantissaBits)
                 THEN [mant |-> sign * Pow2(MantissaBits - 1), exp |-> exp_ + shift + 1]
                 ELSE [mant |-> sign * q2, exp |-> exp_ + shift]

FloatOf(n) == FloatRound(n, 0)

\* T::mul
FloatMul(a, b) == FloatRound(a.mant * b.mant, a.exp + b.exp)

\* T::add
FloatAdd(a, b) ==
    LET e == IF a.exp < b.exp THEN a.exp ELSE b.exp
    IN  FloatRound(a.mant * Pow2(a.exp - e) + b.mant * Pow2(b.exp - e), e)

\* T::div for a nonzero divisor: the quotient is taken to MantissaBits + 2
\* bits and a sticky bit records a remainder, then rounded
FloatDiv(a, b) ==
    LET guard == MantissaBits + 2
        n == Abs(a.mant) * Pow2(guard)
        q == n \div Abs(b.mant)
        sticky == IF n % Abs(b.mant) # 0 THEN 1 ELSE 0
        sign == IF (a.mant < 0) # (b.mant < 0) THEN -1 ELSE 1
    IN  FloatRound(sign * (2 * q + sticky), a.exp - b.exp - guard - 1)

\* a <= b
FloatLe(a, b) ==
    LET e == IF a.exp < b.exp THEN a.exp ELSE b.exp
    IN  a.mant * Pow2(a.exp - e) <= b.mant * Pow2(b.exp - e)

FloatMin(a, b) == IF FloatLe(a, b) THEN a ELSE b
FloatMax(a, b) == IF FloatLe(a, b) THEN b ELSE a

\* WindowedWeightedAverage::new
WindowedWeightedAverage_new(initial_value, internal_weight) ==
    [value |-> initial_value, internal_weight |-> internal_weight]

\* WindowedWeightedAverage::acc
acc(self, value, weight) ==
    [self EXCEPT !.value =
        FloatDiv(FloatAdd(FloatMul(self.value, self.internal_weight),
                          FloatMul(value, weight)),
                 FloatAdd(self.internal_weight, weight))]

\* the values accumulated and the weights: small integers, all representable
AvgValues == {FloatOf(n) : n \in {-3, 0, 3, 7}}
AvgInternalWeights == {FloatOf(n) : n \in {0, 1, 4}}
AvgWeights == {FloatOf(n) : n \in {1, 5}}

\* WindowedWeightedAverage::acc is called; fn_args holds the average and
\* the smallest and the largest of the initial value and the values
\* accumulated, fn_ret the arguments of the last call
acc_call ==
    /\ fn_args.calls < MaxAccCalls
    /\ \E v \in AvgValues, w \in AvgWeights :
         /\ fn_args' = [self |-> acc(fn_args.self, v, w),
                        lo |-> FloatMin(fn_args.lo, v),
                        hi |-> FloatMax(fn_args.hi, v),
                        calls |-> fn_args.calls + 1]
         /\ fn_ret' = [op |-> "acc", t |-> "Returned", e |-> "", result |-> <<v, w>>]
    /\ UNCHANGED <<encvars, decvars, amvars, tdvars>>

InitAvg ==
    /\ \E v \in AvgValues, iw \in AvgInternalWeights :
         fn_args = [self |-> WindowedWeightedAverage_new(v, iw),
                    lo |-> v, hi |-> v, calls |-> 0]
    /\ fn_ret = FnNoCall
    /\ c = [payload |-> <<>>, stuff_bit_after |-> 1, preamble |-> 0]
    /\ m = State_init
    /\ out = <<>>
    /\ last = NoCall
    /\ transitions = NotRun
    /\ DecIdle
    /\ AmIdle
    /\ TdIdle

NextAvg == acc_call

SpecAvg == InitAvg /\ [][NextAvg]_vars

---------------------------------------------------------------------------
(* signals::proc::DFT: the band of bins around a frequency.  Frequencies    *)
(* and the sampling rate are whole numbers of Hz; the DFT is kept as the    *)
(* numbers 1..dft_len of its bins                                           *)

\* usize, kept at UsizeBits bits
UsizeBits == 8
UsizeMax == Pow2(UsizeBits) - 1

\* DFT::frequency_steps
frequency_steps(dft_len) == dft_len \div 2

\* SamplingRate::max_frequency, the rate halved in usize
max_frequency(rate) == rate \div 2

\* (freq / step).round() as usize with step = max_frequency / frequency_steps:
\* round() rounds half away from zero and the cast saturates, a negative
\* quotient and NaN give 0 and +inf gives usize::MAX
center_bin(freq, dft_len, rate) ==
    LET S == frequency_steps(dft_len)
        maxf == max_frequency(rate)
    IN  IF S = 0 THEN 0
        ELSE IF maxf = 0 THEN (IF freq > 0 THEN UsizeMax ELSE 0)
        ELSE IF freq < 0 THEN 0
        ELSE (2 * freq * S + maxf) \div (2 * maxf)

\* faulty variant: the upper bound is not clamped to frequency_steps()
band_step_bounds_unclamped(freq, steps, dft_len, rate) ==
    LET item == center_bin(freq, dft_len, rate)
    IN  IF item < frequency_steps(dft_len)
        THEN LET radius == steps
                 lower_bound == IF item >= radius THEN item - radius ELSE 0
                 upper_bound == item + radius + 1
             IN  [t |-> "Ok", e |-> "", result |-> <<lower_bound, upper_bound>>]
        ELSE [t |-> "Err", e |-> "FrequencyOutOfBounds", result |-> <<>>]

\* DFT::band_step_bounds
band_step_bounds(freq, steps, dft_len, rate) ==
    LET item == center_bin(freq, dft_len, rate)
    IN  IF item < frequency_steps(dft_len)
        THEN LET radius == steps
                 lower_bound == IF item >= radius THEN item - radius ELSE 0
                 upper_bound == IF item + radius + 1 < frequency_steps(dft_len)
                                THEN item + radius + 1 ELSE frequency_steps(dft_len)
             IN  [t |-> "Ok", e |-> "", result |-> <<lower_bound, upper_bound>>]
        ELSE [t |-> "Err", e |-> "FrequencyOutOfBounds", result |-> <<>>]

\* DFT::band_steps: &self.dft[lower..upper] panics for a range that is
\* reversed or ends past the vector
band_steps_panics(freq, steps, dft_len, rate) ==
    LET bounds == band_step_bounds(freq, steps, dft_len, rate)
    IN  /\ bounds.t = "Ok"
        /\ \/ bounds.result[1] > bounds.result[2]
           \/ bounds.result[2] > dft_len

band_steps(freq, steps, dft_len, rate) ==
    LET bounds == band_step_bounds(freq, steps, dft_len, rate)
    IN  IF bounds.t = "Ok"
        THEN [bounds EXCEPT !.result =
                 [i \in 1..(bounds.result[2] - bounds.result[1]) |-> bounds.result[1] + i]]
        ELSE bounds

\* the frequencies, the radii, the DFT lengths and the sampling rates tried
BandFreqs == -1..5
BandRadii == 0..3
DftLens == 0..6
SamplingRates == {0, 4, 8}

\* DFT::band_step_bounds(freq, steps)
band_step_bounds_call ==
    /\ fn_ret = FnNoCall
    /\ LET r == band_step_bounds(fn_args.freq, fn_args.steps, fn_args.dft_len, fn_args.rate)
       IN  fn_ret' = [op |-> "band_step_bounds", t |-> r.t, e |-> r.e, result |-> r.result]
    /\ UNCHANGED fn_args
    /\ UNCHANGED <<encvars, decvars, amvars, tdvars>>

\* DFT::band_steps(freq, steps)
band_steps_call ==
    /\ fn_ret = FnNoCall
    /\ fn_ret' = IF band_steps_panics(fn_args.freq, fn_args.steps, fn_args.dft_len, fn_args.rate)
                 THEN FnPanic("band_steps")
                 ELSE LET r == band_steps(fn_args.freq, fn_args.steps,
                                          fn_args.dft_len, fn_args.rate)
                      IN  [op |-> "band_steps", t |-> r.t, e |-> r.e, result |-> r.result]
    /\ UNCHANGED fn_args
    /\ UNCHANGED <<encvars, decvars, amvars, tdvars>>

InitBand ==
    /\ fn_args \in [freq : BandFreqs, steps : BandRadii, dft_len : DftLens,
                    rate : SamplingRates]
    /\ fn_ret = FnNoCall
    /\ c = [payload |-> <<>>, stuff_bit_after |-> 1, preamble |-> 0]
    /\ m = State_init
    /\ out = <<>>
    /\ last = NoCall
    /\ transitions = NotRun
    /\ DecIdle
    /\ AmIdle
    /\ TdIdle

NextBand == band_step_bounds_call \/ band_steps_call

SpecBand == InitBand /\ [][NextBand]_vars

---------------------------------------------------------------------------
(* utils::BitVec called on its own: fn_args holds the BitVec and the bits  *)
(* pushed and not truncated since, fn_ret the last call                     *)

\* BitVec::push(value)
BitVec_push_call ==
    /\ fn_args.bv.bl < MaxBits
    /\ \E value \in BOOLEAN :
         /\ fn_args' = [bv |-> push(fn_args.bv, value),
                        kept |-> Append(fn_args.kept, value)]
         /\ fn_ret' = [op |-> "push", t |-> "Returned", e |-> "", result |-> <<value>>]
    /\ UNCHANGED <<encvars, decvars, amvars, tdvars>>

\* BitVec::truncate_last_incomplete_byte()
BitVec_truncate_call ==
    /\ fn_args' = [bv |-> truncate_last_incomplete_byte(fn_args.bv),
                   kept |-> SubSeq(fn_args.kept, 1,
                                   Len(fn_args.kept) - (Len(fn_args.kept) % ByteBits))]
    /\ fn_ret' = [op |-> "truncate_last_incomplete_byte", t |-> "Returned", e |-> "",
                  result |-> <<>>]
    /\ UNCHANGED <<encvars, decvars, amvars, tdvars>>

\* BitVec::new
InitBitVec ==
    /\ fn_args = [bv |-> BitVec_new, kept |-> <<>>]
    /\ fn_ret = FnNoCall
    /\ c = [payload |-> <<>>, stuff_bit_after |-> 1, preamble |-> 0]
    /\ m = State_init
    /\ out = <<>>
    /\ last = NoCall
    /\ transitions = NotRun
    /\ DecIdle
    /\ AmIdle
    /\ TdIdle

NextBitVec == BitVec_push_call \/ BitVec_truncate_call

SpecBitVec == InitBitVec /\ [][NextBitVec]_vars

---------------------------------------------------------------------------
(* Properties *)

s_ == c.stuff_bit_after

IsBit(x) == x.t = "Bit"
IsEndOfFrame(x) == x.t = "EndOfFrame"

\* bit k (0-based) of the payload, bytes in order, bit 7 of each byte first
PayloadBitAt(k) ==
    (c.payload[(k \div ByteBits) + 1] \div Pow2(7 - (k % ByteBits))) % 2

\* the bits a BitVec holds, in the order they were pushed
Bits(bv) ==
    [k \in 1..bv.bl |->
        IF read_bit(bv.s[((k - 1) \div ByteBits) + 1], (k - 1) % ByteBits) THEN 1 ELSE 0]

Repeat(x, n) == [k \in 1..n |-> x]

Emitted == out' # out
LastOut == out[Len(out)]
LastOutNext == out'[Len(out')]

\* C1: round trip. Encoding any payload (the empty one included), mapping the
\* symbols to transitions and parsing them with the same stuff_bit_after and
\* preamble returns Ok with the original bytes: no step of the chain fails.
C1_RoundTrip ==
    /\ last # Panic
    /\ transitions.t # "Err"
    /\ pc = "returned" => (ret.t = "Ok" /\ ret.payload = c.payload)

\* (C1, for the payloads that are not empty: the chain still fails, the
\* trailer after a High level being one Hold longer than the decoder allows)
C1_RoundTripNonEmpty ==
    (c.payload # <<>> /\ c.preamble <= 1) => C1_RoundTrip

\* C2: the output begins with StartOfFrame(0) .. StartOfFrame(P-1) for a
\* preamble P >= 1, one StartOfFrame(0) for P = 0, no StartOfFrame follows,
\* and the next symbol is the first payload symbol (bit 7 of the first byte).
PreLen(p) == IF p >= 1 THEN p ELSE 1
PreambleLen == PreLen(c.preamble)

C2_Preamble ==
    /\ \A i \in 1..Len(out) :
          /\ (i <= PreambleLen) <=> (out[i].t = "StartOfFrame")
          /\ i <= PreambleLen => out[i] = StartOfFrame(i - 1)
    /\ Len(out) > PreambleLen => out[PreambleLen + 1] = Bit(PayloadBitAt(0) = 1)

C2_Witness ==
    /\ c.preamble = MaxPreamble
    /\ c.preamble >= 2
    /\ Len(out) = c.preamble + 1

\* C3: the Bit symbols emitted, in order, are the payload's bits, byte by
\* byte, most significant bit first; once the payload is through there are
\* exactly 8 * payload.len() of them (StuffBit carries none and skips none).
C3_BitsMsbFirst ==
    LET bits == SelectSeq(out, IsBit)
    IN  /\ Len(bits) <= ByteBits * Len(c.payload)
        /\ \A k \in 1..Len(bits) : bits[k].v = PayloadBitAt(k - 1)
        /\ m.sm \in {"EndOfFrame", "Complete"} => Len(bits) = ByteBits * Len(c.payload)

C3_Witness ==
    /\ m.sm = "Complete"
    /\ Len(c.payload) = 2
    /\ c.payload[1] = 132
    /\ \E i \in 1..Len(out) : out[i] = StuffBit

\* the last stuff_bit_after symbols emitted are all Bit(false): the latest
\* emission brought the zeros counter to stuff_bit_after
ZeroRunFull ==
    /\ Len(out) >= s_
    /\ \A j \in (Len(out) - s_ + 1)..Len(out) : out[j] = Bit(FALSE)

\* every payload bit has been emitted
LastPayloadBitOut == Len(SelectSeq(out, IsBit)) = ByteBits * Len(c.payload)

\* emitting StuffBit leaves payload_offset and current_bit_offset unchanged
\* and the counter at 0; emitting Bit(true) leaves the counter at 0
StuffBitAndOneReset ==
    /\ (Emitted /\ LastOutNext = StuffBit) =>
          /\ m'.payload_offset = m.payload_offset
          /\ m'.current_bit_offset = m.current_bit_offset
          /\ m'.contigous_zeros = 0
    /\ (Emitted /\ LastOutNext = Bit(TRUE)) => m'.contigous_zeros = 0

\* C4 as stated: whenever a Bit(false) brings the zeros counter to
\* stuff_bit_after, the next symbol emitted is StuffBit; emitting StuffBit
\* leaves the payload cursor unchanged and the counter at 0; emitting
\* Bit(true) leaves the counter at 0.
C4_StuffBitAlwaysNext ==
    [][ /\ (ZeroRunFull /\ Emitted) => LastOutNext = StuffBit
        /\ StuffBitAndOneReset
      ]_vars

\* C4, amended: when a Bit(false) brings the zeros counter to
\* stuff_bit_after, the next symbol emitted is StuffBit if payload bits
\* remain and EndOfFrame(0) if that bit was the last of the payload (the
\* counter is then 0 after the call); emitting StuffBit leaves the payload
\* cursor unchanged and the counter at 0; emitting Bit(true) leaves the
\* counter at 0.
C4_StuffBitNext ==
    [][ /\ (ZeroRunFull /\ Emitted) =>
              /\ LastOutNext = IF LastPayloadBitOut THEN EndOfFrame(0) ELSE StuffBit
              /\ m.contigous_zeros = IF LastPayloadBitOut THEN 0 ELSE s_
        /\ StuffBitAndOneReset
      ]_vars

C4_Witness ==
    /\ s_ = 2
    /\ Len(out) > s_ + 2
    /\ LastOut = EndOfFrame(0)
    /\ \A j \in (Len(out) - s_)..(Len(out) - 1) : out[j] = Bit(FALSE)
    /\ \E i \in 2..Len(out) : out[i] = StuffBit /\ out[i - 1] = Bit(FALSE)

\* C5: no run of consecutive Bit(false) symbols in the output is longer than
\* stuff_bit_after.
C5_ZeroRunBound ==
    \A i \in 1..Len(out) :
        i + s_ <= Len(out) => \E j \in i..(i + s_) : out[j] # Bit(FALSE)

C5_Witness ==
    /\ s_ = 2
    /\ \E i \in 1..Len(out) :
          /\ i + s_ <= Len(out)
          /\ \A j \in i..(i + s_ - 1) : out[j] = Bit(FALSE)
          /\ out[i + s_] = StuffBit

\* C6: after the last payload bit the encoder emits exactly
\* stuff_bit_after + 2 trailer symbols EndOfFrame(0) .. EndOfFrame(
\* stuff_bit_after + 1), in order, nothing between them, for every payload
\* and every stuff_bit_after.
C6_Trailer ==
    LET n == Len(SelectSeq(out, IsEndOfFrame))
        k == Len(out) - n
    IN  /\ \A i \in 1..n : out[k + i] = EndOfFrame(i - 1)
        /\ n <= s_ + 2
        /\ n > 0 => (k >= 1 /\ out[k].t = "Bit")
        /\ m.sm = "Complete" => n = s_ + 2
        /\ last = Panic => m.sm # "EndOfFrame"

\* C7: once the last EndOfFrame symbol, EndOfFrame(stuff_bit_after + 1), has
\* been emitted the encoder is in Complete, and Complete is absorbing: a
\* further call leaves the state Complete, current() Complete, returns None
\* and emits nothing.
C7_CompleteAbsorbing ==
    [][ /\ (out' # <<>> /\ LastOutNext = EndOfFrame(s_ + 1)) => m'.sm = "Complete"
        /\ m.sm = "Complete" =>
              /\ m'.sm = "Complete"
              /\ current(c, m') = Complete
              /\ last' = None
              /\ out' = out
      ]_vars

\* the loop of parse is about to take item `frame[idx + 1]` in the payload state
InPayloadState == pc = "loop" /\ idx < Len(frame) /\ sm.t = "Bit"
Item == frame[idx + 1]

C9_Edge ==
    [][ /\ (InPayloadState /\ Item \in {Rising, Falling}) =>
              /\ sm' = BitState(0)
              /\ pc' = "loop"
              /\ ret' = RetNone
              /\ IF sm.v < bit_stuffing
                 THEN Bits(result') = Bits(result) \o <<1>>
                 ELSE sm.v = bit_stuffing /\ result' = result
        /\ sm'.t = "Bit" => sm'.v <= bit_stuffing
      ]_vars

C9_Witness ==
    /\ dpreamble <= 1
    /\ idx = 4
    /\ frame[1] = Rising
    /\ frame[2] = Falling
    /\ frame[3] = Hold(bit_stuffing)
    /\ frame[4] = Rising
    /\ sm = BitState(0)
    /\ Bits(result) = <<1>> \o Repeat(0, bit_stuffing)

\* C10: in the payload state a Noise at index i ends the frame. With the
\* zero count >= stuff_bit_after the bits of the last incomplete byte are
\* dropped, the items after i are not read and parse returns Ok with
\* frame_offset = i + 1 and the whole bytes; with the count below
\* stuff_bit_after parse returns Err(IncompleteFrame).
C10_Noise ==
    [][ /\ (InPayloadState /\ Item.t = "Noise") =>
              IF sm.v >= bit_stuffing
              THEN /\ sm' = Done(idx + 1)
                   /\ result'.bl = (result.bl \div ByteBits) * ByteBits
                   /\ Bits(result') = SubSeq(Bits(result), 1, result'.bl)
                   /\ byte_vec(result') = SubSeq(result.s, 1, result.bl \div ByteBits)
                   /\ pc' = "loop"
              ELSE /\ pc' = "returned"
                   /\ ret' = RetErr("IncompleteFrame")
        /\ sm.t = "Done" =>
              /\ frame[sm.v].t = "Noise"
              /\ sm.v <= Len(frame)
              /\ sm' = sm /\ result' = result /\ idx' = idx
              /\ pc' = "returned" => ret' = RetOk(result, sm.v)
        /\ (pc' = "returned" /\ ret'.t = "Ok") => sm.t = "Done"
      ]_vars

C10_Witness ==
    /\ pc = "returned"
    /\ ret.t = "Ok"
    /\ ret.payload = <<128>>
    /\ ret.frame_offset = Len(frame)
    /\ frame = <<Rising, Falling, Hold(ByteBits), Noise(1)>>
    /\ bit_stuffing = ByteBits


\* the loop of parse is about to take item `frame[idx + 1]` in a Begin state
InBeginState == pc = "loop" /\ idx < Len(frame) /\ sm.t = "Begin"

\* the edge the preamble expects as its k-th (k from 1): Rising, Falling, Rising, ..
PreambleEdge(k) == IF k % 2 = 1 THEN Rising ELSE Falling

\* the items taken so far begin with n Noise items followed by the whole preamble
StartOfFrameTaken ==
    \E n \in 0..idx :
        /\ n + PreLen(dpreamble) <= idx
        /\ \A j \in 1..n : frame[j].t = "Noise"
        /\ \A k \in 1..PreLen(dpreamble) : frame[n + k] = PreambleEdge(k)

\* C11: parse accepts a start of frame only as leading Noise items followed
\* by P edges Rising, Falling, Rising, .. (one Rising for P = 0), and the item
\* after them is taken in the payload state; any other item met before the
\* preamble is complete (the wrong edge, a Hold, a Noise after the first
\* edge) makes parse return Err(IncorrectStartOfFrame).
C11_StartOfFrame ==
    [][ /\ InBeginState =>
              /\ sm.v = sof
              /\ sof < PreLen(dpreamble)
              /\ IF Item.t = "Noise" /\ sof = 0
                 THEN sm' = Begin(0) /\ sof' = 0 /\ pc' = "loop" /\ idx' = idx + 1
                 ELSE IF Item = PreambleEdge(sof + 1)
                 THEN /\ sof' = sof + 1
                      /\ sm' = IF sof' < PreLen(dpreamble) THEN Begin(sof') ELSE BitState(0)
                      /\ pc' = "loop" /\ idx' = idx + 1
                 ELSE pc' = "returned" /\ ret' = RetErr("IncorrectStartOfFrame")
              /\ result' = result /\ result = BitVec_new
        /\ sm'.t \in {"Bit", "Done"} => StartOfFrameTaken'
        /\ (pc' = "returned" /\ ret'.t = "Err" /\ ret'.e = "IncorrectStartOfFrame")
              => sm.t = "Begin"
      ]_vars

C11_Witness ==
    /\ dpreamble = 2
    /\ Len(frame) >= 3
    /\ frame[1].t = "Noise"
    /\ frame[2] = Rising
    /\ frame[3] = Falling
    /\ idx = 3
    /\ sm = BitState(0)
    /\ sof = 2

\* the shaper's position: the symbol the encoder is at, and the level
AmSymbol == current(am_m.nrzi.c, am_m.nrzi.m)
AmLevel == am_m.current_level

\* a baud boundary was passed: the encoder inside the shaper was advanced
BaudBoundary == am_m'.nrzi.m # am_m.nrzi.m

\* the symbols whose completion flips the level
Flipping(value, level) ==
    \/ value.t = "StartOfFrame"
    \/ value = StuffBit
    \/ value = Bit(TRUE)
    \/ value = EndOfFrame(0)
    \/ value = EndOfFrame(1) /\ level = "High"

\* C12: at a baud boundary the shaper flips current_level iff the symbol just
\* completed is StartOfFrame, StuffBit, Bit(true), EndOfFrame(0), or
\* EndOfFrame(1) with the level High; for every other symbol, and at every
\* step that passes no boundary, the level is unchanged.
C12_LevelFlips ==
    [][ IF BaudBoundary /\ Flipping(AmSymbol, AmLevel)
        THEN AmLevel' = neg(AmLevel)
        ELSE AmLevel' = AmLevel
      ]_vars

C12_Witness ==
    /\ AmSymbol = EndOfFrame(1)
    /\ AmLevel = "High"
    /\ am_m.current_transition_progress > 0
    /\ am_ret.t = "Ok"

\* C13: advance_with(dt) with dt > transition_width returns
\* Err(Undersampled) and leaves current_level, current_transition_progress
\* and the encoder's cursor as they were.
C13_Undersampled ==
    [][ am_dt' > am_c.transition_width =>
            /\ am_ret' = Undersampled
            /\ am_m' = am_m
      ]_vars

C13_Witness ==
    /\ am_ret = Undersampled
    /\ am_dt > am_c.transition_width
    /\ am_m.current_transition_progress > 0
    /\ AmLevel = "High"
    /\ AmSymbol.t = "Bit"

\* the number of symbols the encoder emits from state mm on, for a payload
\* that is not empty
RECURSIVE SymbolCount(_, _)
SymbolCount(cc, mm) ==
    IF current(cc, mm) = Complete THEN 0 ELSE 1 + SymbolCount(cc, advance(cc, mm))

\* the run so far was sampled at k equal steps per baud, k >= 1
EqualSteps(k) == am_dts' = {am_dt'} /\ k * am_dt' = am_c.baud_length

\* what C14 says of one accepted call
FinishedStep ==
    am_dt' <= am_c.transition_width =>
        /\ IF AmSymbol' = Complete THEN am_ret' = Finished ELSE am_ret'.t = "Ok"
        /\ am_ret = Finished => am_ret' = Finished
        /\ (am_ret' = Finished /\ am_ret # Finished) =>
              \A k \in 1..MaxBaudLength :
                  EqualSteps(k) =>
                      am_oks' = SymbolCount(am_m.nrzi.c, State_init) * k - 1

\* C14: an accepted advance_with returns Ok while the symbol stream has not
\* reached Complete; the call that moves it to Complete returns
\* Err(Finished), and so does every later accepted call; a frame of N symbols
\* sampled at k equal steps per baud gives exactly N * k - 1 Ok results
\* before Finished.
C14_Finished == [][FinishedStep]_vars

\* (C14 for the payloads that are not empty)
C14_FinishedNonEmpty == [][am_m.nrzi.c.payload # <<>> => FinishedStep]_vars

\* the bounds of the amplitude interval, over the denominator transition_width
AmMin ==
    (IF am_c.highlow[1] < am_c.highlow[2] THEN am_c.highlow[1] ELSE am_c.highlow[2])
        * am_c.transition_width
AmMax ==
    (IF am_c.highlow[1] < am_c.highlow[2] THEN am_c.highlow[2] ELSE am_c.highlow[1])
        * am_c.transition_width

---------------------------------------------------------------------------
(* The transition stream of the AM transition decoder *)

\* the transition handed to push_transition by the step, if there is one
PushedNow == Len(td_m'.pushed) = Len(td_m.pushed) + 1
PushedTs == td_m'.pushed[Len(td_m'.pushed)]
LastEntry(mm) == mm.transitions[Len(mm.transitions)]

NoAdjacentHoldOrNoise ==
    \A i \in 1..(Len(td_m.transitions) - 1) :
        /\ ~(td_m.transitions[i].t = "Hold" /\ td_m.transitions[i + 1].t = "Hold")
        /\ ~(td_m.transitions[i].t = "Noise" /\ td_m.transitions[i + 1].t = "Noise")

MergeAddsCounts ==
    (/\ PushedNow
     /\ td_m.transitions # <<>>
     /\ PushedTs.t \in {"Hold", "Noise"}
     /\ LastEntry(td_m).t = PushedTs.t)
    => /\ Len(td_m'.transitions) = Len(td_m.transitions)
       /\ LastEntry(td_m') = [t |-> PushedTs.t, v |-> LastEntry(td_m).v + PushedTs.v]

\* C16: the transitions stream never holds two adjacent Hold entries nor two
\* adjacent Noise entries; a Hold pushed after a Hold, and a Noise pushed
\* after a Noise, adds its count to the last entry.
C16_NoAdjacent == []NoAdjacentHoldOrNoise /\ [][MergeAddsCounts]_vars

\* Hold(2) was pushed after Hold(1) and Noise(2) after Noise(1)
C16_Witness ==
    /\ td_m.pushed = <<Hold(1), Hold(2), Noise(1), Noise(2)>>
    /\ td_m.transitions = <<Noise(3)>>

\* the edge pushed last before the Holds that end the history, if there is one
RECURSIVE PreviousEdge(_)
PreviousEdge(history) ==
    IF history = <<>> THEN None
    ELSE LET ts == history[Len(history)]
         IN  IF ts.t = "Hold" THEN PreviousEdge(SubSeq(history, 1, Len(history) - 1))
             ELSE IF ts \in {Rising, Falling} THEN ts
             ELSE None

\* the step is parse_traisition in Synchronized with the edge that was pushed last
RepeatedEdgeStep ==
    /\ td_m.sm = "Synchronized"
    /\ td_ret'.op = "parse_traisition"
    /\ PushedNow
    /\ PushedTs \in {Rising, Falling}
    /\ PreviousEdge(td_m.pushed) = PushedTs

\* C17: in Synchronized, an edge of the same polarity as the previous edge
\* (with or without Holds in between) is recorded as Noise(1) and the state
\* machine goes to Searching.
C17_RepeatedEdge ==
    [][RepeatedEdgeStep =>
          /\ LastEntry(td_m') = Noise(1)
          /\ td_m'.sm = "Searching"]_vars

\* the part of C17 the code keeps: an edge pushed directly after the same
\* edge becomes a Noise entry and the state machine goes to Searching
C17_AdjacentEdgeIsNoise ==
    [][(RepeatedEdgeStep /\ td_m.transitions # <<>> /\ LastEntry(td_m) = PushedTs) =>
          /\ LastEntry(td_m').t = "Noise"
          /\ td_m'.sm = "Searching"]_vars

\* the transition pushed by the step merges with the last entry of the stream
Merges ==
    /\ td_m.transitions # <<>>
    /\ PushedTs.t \in {"Hold", "Noise"}
    /\ LastEntry(td_m).t = PushedTs.t

\* a push appends one entry behind the unchanged stream, or changes the count
\* of the last entry only
AppendOrMerge ==
    PushedNow =>
        IF Merges
        THEN /\ Len(td_m'.transitions) = Len(td_m.transitions)
             /\ \A i \in 1..(Len(td_m.transitions) - 1) :
                    td_m'.transitions[i] = td_m.transitions[i]
             /\ LastEntry(td_m').t = LastEntry(td_m).t
        ELSE /\ Len(td_m'.transitions) = Len(td_m.transitions) + 1
             /\ SubSeq(td_m'.transitions, 1, Len(td_m.transitions)) = td_m.transitions

\* C18: the transitions stream is append-only and in emission order: a push
\* that does not merge adds one entry and leaves the earlier ones unchanged,
\* a merge changes the count of the last entry only; after Rising, Hold(1),
\* Falling were pushed the stream reads [Rising, Hold(1), Falling].
C18_AppendOnly ==
    /\ [][AppendOrMerge]_vars
    /\ [](td_m.pushed = <<Rising, Hold(1), Falling>>
            => td_m.transitions = <<Rising, Hold(1), Falling>>)

---------------------------------------------------------------------------
(* TransitionDecoder::parse and the sample queues *)

\* the step is a call of TransitionDecoder::parse
ParseStep == td_ret'.op = "parse" /\ (td_ret' # td_ret \/ td_m' # td_m)

\* C19: parse may be called in every reachable state of the decoder and
\* returns; with no more carrier amplitudes than the kernel is wide (a fresh
\* decoder has none) it pushes no transition and drains no amplitude.
C19_ParseReturns ==
    [][ParseStep =>
          /\ td_ret'.t = "Returned"
          /\ Len(td_m.carrier_amplitudes) <= buad_length(td_c)
               => /\ td_m'.pushed = td_m.pushed
                  /\ td_m'.carrier_amplitudes = td_m.carrier_amplitudes]_vars

\* the part of C19 the code keeps: in Searching, with at least as many carrier
\* amplitudes as the kernel is wide, parse returns
C19_SearchReturns ==
    [][(ParseStep /\ td_m.sm = "Searching"
                  /\ Len(td_m.carrier_amplitudes) >= buad_length(td_c))
          => td_ret'.t = "Returned"]_vars

\* C20: after each dequeue_realtime_samples and each
\* sample_backlog_to_carrier_amplitudes (and in every other state) the length
\* of backlog is a multiple of fft_window_sc, whatever the lengths of the
\* blocks given to append_samples.
C20_BacklogWholeWindows == Len(td_m.backlog) % td_c.fft_window_sc = 0

\* samples were promoted and turned into amplitudes with a window of more
\* than one sample, and an incomplete window waits in realtime_backlog
C20_Witness ==
    /\ td_c.fft_window_sc > 1
    /\ td_ret.op \in {"sample_backlog_to_carrier_amplitudes", "process"}
    /\ td_m.carrier_amplitudes # <<>>
    /\ td_m.backlog # <<>>
    /\ td_m.realtime_backlog # <<>>

\* the step is a call of dequeue_realtime_samples on its own
DequeueStep == td_ret'.op = "dequeue_realtime_samples" /\ td_m' # td_m

\* the length of the longest window-aligned prefix of realtime_backlog
AlignedPrefix ==
    Len(td_m.realtime_backlog) - (Len(td_m.realtime_backlog) % td_c.fft_window_sc)

\* C21: dequeue_realtime_samples moves the first floor(n / fft_window_sc) *
\* fft_window_sc samples of realtime_backlog to the back of backlog in
\* unchanged order and leaves the other n mod fft_window_sc samples, in
\* order, at the head of realtime_backlog.
C21_DequeueAlignedPrefix ==
    [][DequeueStep =>
          /\ td_m'.backlog =
                td_m.backlog \o SubSeq(td_m.realtime_backlog, 1, AlignedPrefix)
          /\ td_m'.realtime_backlog =
                SubSeq(td_m.realtime_backlog, AlignedPrefix + 1, Len(td_m.realtime_backlog))
          /\ Len(td_m'.realtime_backlog) =
                Len(td_m.realtime_backlog) % td_c.fft_window_sc]_vars

\* a dequeue with a window of more than one sample has promoted samples
\* behind earlier ones and left an incomplete window behind
C21_Witness ==
    /\ td_c.fft_window_sc > 1
    /\ td_ret.op = "dequeue_realtime_samples"
    /\ Len(td_m.backlog) > td_c.fft_window_sc
    /\ td_m.realtime_backlog # <<>>

---------------------------------------------------------------------------
(* Producer threads against the owner thread *)

\* the samples of a sequence of blocks, in order
RECURSIVE Flatten(_)
Flatten(blocks) ==
    IF blocks = <<>> THEN <<>>
    ELSE Flatten(SubSeq(blocks, 1, Len(blocks) - 1)) \o blocks[Len(blocks)]

\* the samples of the blocks that hold the lock and are not yet in the queue
RECURSIVE PendingSamples(_)
PendingSamples(ps) ==
    IF ps = {} THEN 0
    ELSE LET p == CHOOSE q \in ps : TRUE
         IN  (IF th_prod[p].pc = "extend" THEN Len(th_prod[p].samples) - th_prod[p].i ELSE 0)
             + PendingSamples(ps \ {p})

\* every sample that has entered the decoder, oldest first
AllSamples == th_consumed \o td_m.backlog \o td_m.realtime_backlog

\* C22: under every interleaving of appending producer threads with the
\* owner's dequeue_realtime_samples and sample_backlog_to_carrier_amplitudes
\* no sample is lost, duplicated or reordered: the samples consumed into FFT
\* windows, then backlog, then realtime_backlog are the appended blocks in
\* the order the appends took the lock, each block contiguous.
C22_NoSampleLostOrReordered ==
    AllSamples = SubSeq(Flatten(th_order), 1,
                        Len(Flatten(th_order)) - PendingSamples(Producers))

\* both producers have appended, in turns, samples have reached all three
\* stages, and a producer waits for the mutex the owner holds
C22_Witness ==
    /\ Len(th_order) >= 2
    /\ th_order[1][1] > ProducerBase("p2")
    /\ th_order[2][1] < ProducerBase("p2")
    /\ th_consumed # <<>>
    /\ td_m.backlog # <<>>
    /\ td_m.realtime_backlog # <<>>
    /\ th_mutex.realtime_backlog = "owner"
    /\ \E p \in Producers : th_prod[p].pc = "lock"

---------------------------------------------------------------------------
(* utils::conv1d *)

\* the sum over the first n kernel items of signal[i - half + k] * kernel[k]
\* (indices from zero), signal items out of range counting as zero
RECURSIVE PaddedSum(_, _, _, _)
PaddedSum(signal, kernel, i, n) ==
    IF n = 0 THEN 0
    ELSE LET k == n - 1
             j == i - (Len(kernel) \div 2) + k
         IN  PaddedSum(signal, kernel, i, n - 1)
             + (IF j >= 0 /\ j < Len(signal) THEN signal[j + 1] * kernel[k + 1] ELSE 0)

\* C23: conv1d::same with out.len() = signal.len() leaves in every out[i],
\* whatever out held before, the sum over k of signal[i - half + k] * kernel[k]
\* with half = kernel.len() / 2 and out-of-range signal items counted as
\* zero; it reads nothing out of bounds and panics exactly when the lengths
\* differ.
C23_Same ==
    fn_ret.op = "same" =>
        /\ fn_ret.t = "Panic" <=> Len(fn_args.result) # Len(fn_args.signal)
        /\ fn_ret.t = "Returned" =>
              \A i \in 1..Len(fn_ret.result) :
                  fn_ret.result[i] = PaddedSum(fn_args.signal, fn_args.kernel, i - 1,
                                               Len(fn_args.kernel))

\* the part of C23 the code keeps: the sum is added to what out[i] held
C23_SameAccumulates ==
    fn_ret.op = "same" =>
        /\ fn_ret.t = "Panic" <=> Len(fn_args.result) # Len(fn_args.signal)
        /\ fn_ret.t = "Returned" =>
              \A i \in 1..Len(fn_ret.result) :
                  fn_ret.result[i] = fn_args.result[i]
                                     + PaddedSum(fn_args.signal, fn_args.kernel, i - 1,
                                                 Len(fn_args.kernel))

\* the sum over the first n kernel items of signal[i + k] * kernel[k]
\* (indices from zero)
RECURSIVE WindowSum(_, _, _, _)
WindowSum(signal, kernel, i, n) ==
    IF n = 0 THEN 0
    ELSE WindowSum(signal, kernel, i, n - 1) + signal[i + n] * kernel[n]

ValidLength == Len(fn_args.signal) - Len(fn_args.kernel) + 1

\* C24: conv1d::valid returns Ok only when out.len() = signal.len() -
\* kernel.len() + 1 and then every out[i] is the sum over k of signal[i + k] *
\* kernel[k]; it returns Err(SignalShorterThanKernel) when the signal is
\* shorter than the kernel and Err(IncorrectOutputSize) when the output
\* length is wrong, and on either error out is left as it was.
C24_Valid ==
    (fn_ret.op = "valid" /\ fn_ret.t # "Panic") =>
        /\ fn_ret.t = "Ok" =>
              /\ Len(fn_args.result) = ValidLength
              /\ Len(fn_ret.result) = ValidLength
              /\ \A i \in 1..ValidLength :
                    fn_ret.result[i] = WindowSum(fn_args.signal, fn_args.kernel, i - 1,
                                                 Len(fn_args.kernel))
        /\ Len(fn_args.signal) < Len(fn_args.kernel) =>
              fn_ret.t = "Err" /\ fn_ret.e = "SignalShorterThanKernel"
        /\ (Len(fn_args.signal) >= Len(fn_args.kernel) /\ Len(fn_args.result) # ValidLength) =>
              fn_ret.t = "Err" /\ fn_ret.e = "IncorrectOutputSize"
        /\ fn_ret.t = "Err" => fn_ret.result = fn_args.result

\* valid returned Ok and overwrote two items of a buffer that was not zero
C24_Witness ==
    /\ fn_ret.op = "valid"
    /\ fn_ret.t = "Ok"
    /\ Len(fn_args.kernel) = 2
    /\ fn_args.result = <<5, 5>>
    /\ fn_ret.result = <<2, -2>>

\* outside the cases C24 names: valid panics exactly for an empty kernel
\* with an output of the right length (slice::windows(0))
C24_PanicOnlyOnEmptyKernel ==
    (fn_ret.op = "valid" /\ fn_ret.t = "Panic") <=>
        (fn_ret.op = "valid" /\ fn_args.kernel = <<>> /\ Len(fn_args.result) = ValidLength)

---------------------------------------------------------------------------
(* The amplitude the AM shaper returns *)

\* highlow.0 for High, highlow.1 for Low
AmplitudeOf(level) == IF level = "High" THEN am_c.highlow[1] ELSE am_c.highlow[2]

\* from + (to - from) * min(progress / transition_width, 1), times
\* transition_width
Interpolated ==
    LET from == AmplitudeOf(AmLevel)
        to == AmplitudeOf(neg(AmLevel))
        progress == am_m.current_transition_progress
    IN  from * am_c.transition_width
        + (to - from) * (IF progress < am_c.transition_width THEN progress
                         ELSE am_c.transition_width)

\* C25: advance_with returns the amplitude at the time before the step: on a
\* flipping symbol from + (to - from) * min(progress / transition_width, 1),
\* with from the amplitude of current_level, to that of the opposite level
\* and progress the time since the baud started; on a holding symbol the
\* amplitude of current_level.
C25_AmplitudeBeforeStep ==
    [][am_ret'.t = "Ok" =>
          am_ret'.v = IF Flipping(AmSymbol, AmLevel)
                      THEN Interpolated
                      ELSE AmplitudeOf(AmLevel) * am_c.transition_width]_vars

\* advance_with returned the amplitude half-way up a slope from Low to High
C25_Witness ==
    /\ am_ret.t = "Ok"
    /\ am_c.highlow = <<1, 0>>
    /\ am_c.transition_width = 2
    /\ am_ret.v = 1
    /\ am_dt = 1

---------------------------------------------------------------------------
(* The state machine of the AM transition decoder *)

\* C26: the transitions stream never contains Noise(0) or Hold(0):
\* push_transition rejects them, and an edge that repeats the polarity of
\* the previous edge is stored as Noise(1).
C26_NoZeroCounts ==
    \A i \in 1..Len(td_m.transitions) :
        td_m.transitions[i] \notin {Noise(0), Hold(0)}

\* the expected edge of Synchronized(e), read off the code: the edges that
\* parse_traisition takes without leaving Synchronized
AcceptedEdges(mm) ==
    {ts \in {Rising, Falling} :
        mm.sm = "Synchronized" /\ parse_traisition(mm, ts).sm = "Synchronized"}

Opposite(ts) == IF ts = Rising THEN Falling ELSE Rising

PushedSome == Len(td_m'.pushed) > Len(td_m.pushed)

StateMachineStep ==
    /\ (PushedSome /\ PushedTs.t = "Noise") => td_m'.sm = "Searching"
    /\ (PushedNow /\ td_m.sm = "Synchronized" /\ AcceptedEdges(td_m) = {PushedTs})
          => /\ td_m'.sm = "Synchronized"
             /\ AcceptedEdges(td_m') = {Opposite(PushedTs)}
    /\ (PushedNow /\ td_m.sm = "Synchronized" /\ PushedTs.t = "Hold")
          => /\ td_m'.sm = "Synchronized"
             /\ AcceptedEdges(td_m') = AcceptedEdges(td_m)

SynchronizedNotAfterNoise ==
    td_m.sm = "Synchronized" =>
        /\ td_m.transitions # <<>>
        /\ LastEntry(td_m).t # "Noise"

\* C27: a pushed Noise sets sm to Searching; the expected edge pushed in
\* Synchronized(e) leaves sm Synchronized, now expecting the opposite edge; a
\* Hold pushed in Synchronized leaves sm Synchronized with the same expected
\* edge; the decoder is Synchronized only while no Noise follows the last
\* edge of the stream.
C27_StateMachine == [][StateMachineStep]_vars /\ []SynchronizedNotAfterNoise

\* the part of C27 the code keeps: Noise leads to Searching, the expected
\* edge and a Hold keep Synchronized, Synchronized never follows a Noise
C27_SearchingAndSynchronized ==
    /\ [][/\ (PushedSome /\ PushedTs.t = "Noise") => td_m'.sm = "Searching"
          /\ (PushedNow /\ td_m.sm = "Synchronized"
                /\ (PushedTs \in AcceptedEdges(td_m) \/ PushedTs.t = "Hold"))
               => td_m'.sm = "Synchronized"]_vars
    /\ []SynchronizedNotAfterNoise

\* the step is parse called in Searching, and it returns
SearchStep == ParseStep /\ td_m.sm = "Searching" /\ td_ret'.t = "Returned"

\* the rising-edge search over all carrier amplitudes
RisingSearch ==
    TransitionSearch_process(td_m.carrier_amplitudes,
                             td_c.transition_convolution_kernels.rising)
SearchHit == snr_above(RisingSearch, td_c.min_snr)

\* the detected edge position: the last amplitude of the first window whose
\* product with the rising kernel is the largest (counted from zero)
EdgePosition ==
    LET windows == Len(td_m.carrier_amplitudes) - buad_length(td_c) + 1
        product(i) == fold_window(td_m.carrier_amplitudes,
                                  td_c.transition_convolution_kernels.rising,
                                  i, buad_length(td_c))
        best == CHOOSE i \in 1..windows :
                    /\ \A j \in 1..windows : product(j) <= product(i)
                    /\ \A j \in 1..(i - 1) : product(j) < product(i)
    IN  (best - 1) + (buad_length(td_c) - 1)

HalfWindowWidth == buad_length(td_c) \div 2

\* C29: in Searching a miss of the rising-edge search removes all but the
\* last half_window_width carrier amplitudes, pushes no transition and stays
\* Searching, so the amplitudes buffered on an edge-free signal stay bounded.
C29_SearchMiss ==
    [][(SearchStep /\ ~SearchHit) =>
          /\ td_m'.pushed = td_m.pushed
          /\ td_m'.sm = "Searching"
          /\ Len(td_m'.carrier_amplitudes) <= HalfWindowWidth
          /\ td_m'.carrier_amplitudes =
                SubSeq(td_m.carrier_amplitudes,
                       Len(td_m.carrier_amplitudes) - Len(td_m'.carrier_amplitudes) + 1,
                       Len(td_m.carrier_amplitudes))]_vars

\* the part of C29 the code keeps: a miss pushes nothing and stays Searching
C29_MissKeepsSearching ==
    [][(SearchStep /\ ~SearchHit) =>
          /\ td_m'.pushed = td_m.pushed
          /\ td_m'.sm = "Searching"
          /\ td_m'.carrier_amplitudes = td_m.carrier_amplitudes]_vars

\* no Hold entry of the stream counts more windows than the limit
HoldWithinLimit ==
    \A i \in 1..Len(td_m.transitions) :
        td_m.transitions[i].t = "Hold"
            => td_m.transitions[i].v <= td_c.max_trainsition_distance

\* the step is parse called in Synchronized, and it returns
NextBaudStep == ParseStep /\ td_m.sm = "Synchronized" /\ td_ret'.t = "Returned"

\* the last two entries of the stream after the step
LastTwo == SubSeq(td_m'.transitions, Len(td_m'.transitions) - 1, Len(td_m'.transitions))

HoldRunRecorded ==
    /\ (NextBaudStep /\ PushedNow /\ PushedTs \in {Rising, Falling}
          /\ LastEntry(td_m).t = "Hold")
          => /\ Len(td_m'.transitions) >= 2
             /\ LastTwo[1] = LastEntry(td_m)
             /\ LastTwo[2] \in {PushedTs, Noise(1)}
    /\ (NextBaudStep /\ Len(td_m'.pushed) = Len(td_m.pushed) + 2)
          => /\ Len(td_m'.transitions) >= 2
             /\ LastTwo = <<Hold(td_c.max_trainsition_distance), Noise(1)>>
             /\ td_m'.sm = "Searching"

\* C30: in Synchronized a run of n transitionless windows before an edge is
\* recorded as Hold(n) followed by the edge, with n within the limit; when
\* the limit is reached without an edge the decoder records Hold(limit)
\* followed by Noise(1) and returns to Searching; no Hold entry ever counts
\* more than the limit.
C30_HoldRuns == [][HoldRunRecorded]_vars /\ []HoldWithinLimit

\* the part of C30 the code keeps: no Hold entry counts more than the limit,
\* and at the limit Noise(1) is the last entry and sm is Searching
C30_HoldLimit ==
    /\ []HoldWithinLimit
    /\ [][(NextBaudStep /\ Len(td_m'.pushed) = Len(td_m.pushed) + 2)
            => /\ LastEntry(td_m') = Noise(1)
               /\ td_m'.sm = "Searching"]_vars

\* the carrier amplitudes produced so far: one for each window of samples
\* that has left the backlog
AmplitudesProduced(mm) ==
    (td_appended - Len(mm.realtime_backlog) - Len(mm.backlog)) \div td_c.fft_window_sc

ProcessStep == td_ret'.op = "process"

IsPrefixOf(s, t) == Len(s) <= Len(t) /\ SubSeq(t, 1, Len(s)) = s

IsSuffixOf(s, t) == Len(s) <= Len(t) /\ SubSeq(t, Len(t) - Len(s) + 1, Len(t)) = s

\* carrier_amplitudes grows at the back and shrinks from the front
GrowsBackShrinksFront ==
    \/ IsPrefixOf(td_m.carrier_amplitudes, td_m'.carrier_amplitudes)
    \/ IsSuffixOf(td_m'.carrier_amplitudes, td_m.carrier_amplitudes)

\* C31: process() drains the backlog completely in chunks of fft_window_sc
\* samples, one carrier amplitude pushed to the back per chunk: after
\* process() the backlog holds no full window and the amplitudes produced so
\* far number floor(samples appended / fft_window_sc); carrier_amplitudes
\* grows only at the back and shrinks only from the front.
C31_DrainsCompletely ==
    [][/\ GrowsBackShrinksFront
       /\ ProcessStep =>
            /\ Len(td_m'.backlog) < td_c.fft_window_sc
            /\ AmplitudesProduced(td_m') = td_appended' \div td_c.fft_window_sc
            /\ IsPrefixOf(td_m.carrier_amplitudes, td_m'.carrier_amplitudes)
            /\ Len(td_m'.carrier_amplitudes) - Len(td_m.carrier_amplitudes)
                 = AmplitudesProduced(td_m') - AmplitudesProduced(td_m)]_vars

\* the part of C31 the code keeps: the loop runs while the backlog is longer
\* than one window, so process() leaves exactly one window behind once a
\* window has arrived, and one amplitude is pushed to the back for every
\* other window
C31_KeepsOneWindow ==
    [][/\ GrowsBackShrinksFront
       /\ ProcessStep =>
            /\ Len(td_m'.backlog) =
                 IF td_appended' >= td_c.fft_window_sc THEN td_c.fft_window_sc ELSE 0
            /\ AmplitudesProduced(td_m') =
                 IF td_appended' >= td_c.fft_window_sc
                 THEN td_appended' \div td_c.fft_window_sc - 1 ELSE 0
            /\ IsPrefixOf(td_m.carrier_amplitudes, td_m'.carrier_amplitudes)
            /\ Len(td_m'.carrier_amplitudes) - Len(td_m.carrier_amplitudes)
                 = AmplitudesProduced(td_m') - AmplitudesProduced(td_m)]_vars

---------------------------------------------------------------------------
(* utils::WindowedWeightedAverage *)

AccStep == fn_ret'.op = "acc" /\ fn_args'.calls = fn_args.calls + 1

NonNegative(a) == a.mant >= 0
Positive(a) == a.mant > 0

\* for a positive weight the new value does not decrease when the
\* accumulated value grows
AccMonotone ==
    \A w \in AvgWeights, v1 \in AvgValues, v2 \in AvgValues :
        (NonNegative(fn_args.self.internal_weight) /\ Positive(w) /\ FloatLe(v1, v2))
            => FloatLe(acc(fn_args.self, v1, w).value, acc(fn_args.self, v2, w).value)

WithinHistory ==
    /\ FloatLe(fn_args.lo, fn_args.self.value)
    /\ FloatLe(fn_args.self.value, fn_args.hi)

\* C32: acc(v, w) sets value to (value * internal_weight + v * w) /
\* (internal_weight + w) and leaves internal_weight unchanged; for
\* non-negative weights with w > 0 the new value is monotone non-decreasing
\* in v and, after any sequence of acc calls, value lies between the
\* minimum and the maximum of the initial value and all accumulated v.
C32_Acc ==
    /\ [](AccMonotone /\ WithinHistory)
    /\ [][AccStep =>
            /\ fn_args'.self.internal_weight = fn_args.self.internal_weight
            /\ fn_args'.self.value =
                 acc(fn_args.self, fn_ret'.result[1], fn_ret'.result[2]).value]_vars

\* the part of C32 the code keeps: the formula, the fixed internal_weight
\* and the monotonicity in v
C32_AccMonotone ==
    /\ []AccMonotone
    /\ [][AccStep =>
            /\ fn_args'.self.internal_weight = fn_args.self.internal_weight
            /\ fn_args'.self.value =
                 acc(fn_args.self, fn_ret'.result[1], fn_ret'.result[2]).value]_vars

\* a rounded average has left the range of the values accumulated
C32_RoundedOutOfHistory == fn_args.calls > 0 /\ ~WithinHistory

---------------------------------------------------------------------------
(* signals::proc::DFT::band_step_bounds *)

BandS == frequency_steps(fn_args.dft_len)

\* n is the centre bin: the whole number nearest to freq / step, halves away
\* from zero, where the quotient is a number of bins; the cast's value
\* otherwise
IsCentreBin(n) ==
    LET maxf == max_frequency(fn_args.rate)
    IN  IF BandS > 0 /\ maxf > 0 /\ fn_args.freq >= 0
        THEN /\ (2 * n - 1) * maxf <= 2 * fn_args.freq * BandS
             /\ 2 * fn_args.freq * BandS < (2 * n + 1) * maxf
        ELSE n = center_bin(fn_args.freq, fn_args.dft_len, fn_args.rate)

BandMax(a, b) == IF a >= b THEN a ELSE b
BandMin(a, b) == IF a <= b THEN a ELSE b

BoundsAround(n, lower, upper) ==
    /\ lower = BandMax(n - fn_args.steps, 0)
    /\ upper = BandMin(n + fn_args.steps + 1, BandS)
    /\ 0 <= lower /\ lower <= n /\ n < upper /\ upper <= BandS

C33_WitnessErr ==
    /\ fn_ret.op = "band_step_bounds"
    /\ fn_ret.t = "Err"
    /\ BandS = 3
    /\ IsCentreBin(4)

---------------------------------------------------------------------------
(* The two sample-queue mutexes *)

Threads == Producers \cup {"owner"}

InCall(th) == IF th = "owner" THEN th_owner.pc # "idle" ELSE th_prod[th].pc # "idle"

\* the mutex a thread is blocked on in Mutex::lock, "none" if it is not
WaitsFor(th) ==
    IF th = "owner"
    THEN CASE th_owner.pc = "dequeue_lock_source" -> "realtime_backlog"
           [] th_owner.pc \in {"dequeue_lock_target", "sample_lock"} -> "backlog"
           [] OTHER -> "none"
    ELSE CASE th_prod[th].pc \in {"lock", "dequeue_lock_source"} -> "realtime_backlog"
           [] th_prod[th].pc = "dequeue_lock_target" -> "backlog"
           [] OTHER -> "none"

Holds(th, name) == th_mutex[name] = th

\* realtime_backlog is never requested by a thread that holds backlog
LockOrder ==
    \A th \in Threads : WaitsFor(th) = "realtime_backlog" => ~Holds(th, "backlog")

\* a thread outside a call holds no mutex
ReleasedOnReturn ==
    \A th \in Threads : ~InCall(th) =>
        ~Holds(th, "realtime_backlog") /\ ~Holds(th, "backlog")

\* a thread can go on: it is not blocked, or the mutex it waits for is free,
\* or the thread holding that mutex can go on (a chain of at most n waits)
RECURSIVE CanGoOn(_, _)
CanGoOn(th, n) ==
    \/ WaitsFor(th) = "none"
    \/ th_mutex[WaitsFor(th)] = "free"
    \/ /\ n > 0
       /\ th_mutex[WaitsFor(th)] \in Threads \ {th}
       /\ InCall(th_mutex[WaitsFor(th)])
       /\ CanGoOn(th_mutex[WaitsFor(th)], n - 1)

\* the waits of the blocked threads form no cycle
NoWaitCycle == \A th \in Threads : CanGoOn(th, Cardinality(Threads))

\* C34: no interleaving of threads calling append_samples,
\* dequeue_realtime_samples and sample_backlog_to_carrier_amplitudes
\* deadlocks: realtime_backlog is taken before backlog and never after it,
\* every lock is released before the operation returns, and every call
\* eventually completes.
C34_NoDeadlock ==
    /\ [](LockOrder /\ ReleasedOnReturn /\ NoWaitCycle)
    /\ \A th \in Threads : InCall(th) ~> ~InCall(th)

\* a chain of waits: one thread waits to append, the thread holding
\* realtime_backlog waits in dequeue_realtime_samples for backlog, which the
\* owner holds inside the loop of sample_backlog_to_carrier_amplitudes
C34_Witness ==
    /\ th_prod["p1"].pc = "lock"
    /\ th_prod["p2"].pc = "dequeue_lock_target"
    /\ Holds("p2", "realtime_backlog")
    /\ Holds("owner", "backlog")
    /\ th_owner.pc = "sample_loop"
    /\ Len(td_m.backlog) > td_c.fft_window_sc

---------------------------------------------------------------------------
(* The results of NRZI::parse *)

\* the frame is over with parse neither done nor failed
Exhausted == pc = "loop" /\ idx = Len(frame) /\ sm.t # "Done"

\* C35: parse returns Ok only after meeting, in the payload state, a Noise
\* with running zero count >= bit_stuffing; if the transitions are exhausted
\* before that with no error raised (empty input, leading Noise only, a
\* preamble alone, payload with no terminating Noise), parse returns no
\* Error value but panics with the message Internal error.
C35_OkOrPanic ==
    /\ [](ret.t = "Ok" => sm.t = "Done" /\ ret.frame_offset = sm.v)
    /\ [](ret.t = "Panic" => /\ ret.e = "Internal error"
                             /\ idx = Len(frame)
                             /\ sm.t \in {"Begin", "Bit"})
    /\ [][/\ (sm'.t = "Done" /\ sm.t # "Done") =>
                /\ sm.t = "Bit"
                /\ sm.v >= bit_stuffing
                /\ frame[idx + 1].t = "Noise"
                /\ sm'.v = idx + 1
          /\ (Exhausted /\ pc' = "returned") => ret' = RetPanic]_vars

\* payload transitions with no terminating Noise end in the panic
C35_Witness ==
    /\ ret = RetPanic
    /\ sm.t = "Bit"
    /\ result.bl > 0
    /\ \A i \in 1..Len(frame) : frame[i].t # "Noise"

\* a preamble alone ends in the panic
C35_WitnessPreamble ==
    /\ ret = RetPanic
    /\ sm.t = "Begin"
    /\ sof = 1
    /\ dpreamble = 2
    /\ frame = <<Rising>>

---------------------------------------------------------------------------
(* The end of the frame at the AM shaper *)

\* the symbol EndOfFrame(1) has been completed
PastEndOfFrame1 ==
    \/ AmSymbol.t = "EndOfFrame" /\ AmSymbol.v >= 2
    \/ AmSymbol = Complete

LowAmplitude == level_to_amplitude(am_c, "Low") * am_c.transition_width

\* after EndOfFrame(1) the level is Low, every amplitude returned from then
\* on is the Low amplitude, and at Complete the stuff_bit_after symbols
\* EndOfFrame(2 ..) have been held
EndsLow ==
    /\ [](PastEndOfFrame1 => AmLevel = "Low")
    /\ [](AmSymbol = Complete =>
             am_m.nrzi.m.contigous_zeros >= am_m.nrzi.c.stuff_bit_after + 2)
    /\ [][(PastEndOfFrame1 /\ am_ret'.t = "Ok") => am_ret'.v = LowAmplitude]_vars

\* C36: for every payload and every stuff_bit_after >= 1, whichever level
\* the payload ends on, once the shaper has completed EndOfFrame(1) its
\* current_level is Low and stays Low through the remaining EndOfFrame
\* symbols and after Finished, so every frame ends with at least
\* stuff_bit_after held bauds at the Low amplitude.
C36_EndsLow == EndsLow

\* the part of C36 the code keeps: the same for stuff_bit_after below 254
C36_EndsLowSmall ==
    /\ [](am_m.nrzi.c.stuff_bit_after < U8Modulus - 2 =>
             /\ PastEndOfFrame1 => AmLevel = "Low"
             /\ AmSymbol = Complete =>
                  am_m.nrzi.m.contigous_zeros >= am_m.nrzi.c.stuff_bit_after + 2)
    /\ [][(am_m.nrzi.c.stuff_bit_after < U8Modulus - 2
           /\ PastEndOfFrame1 /\ am_ret'.t = "Ok") => am_ret'.v = LowAmplitude]_vars

\* a frame whose payload ends on Low and one whose payload ends on High have
\* both been held at Low after EndOfFrame(1)
C36_HeldLowAfterHigh ==
    /\ AmSymbol = EndOfFrame(3)
    /\ am_m.nrzi.c.payload = <<66>>
    /\ am_m.nrzi.c.stuff_bit_after = 3
    /\ am_ret = AmOk(LowAmplitude)

---------------------------------------------------------------------------
(* utils::BitVec *)

CeilDiv(a, b) == (a + b - 1) \div b

\* bit i (0-based) of the buffer, read at position 7 - (i mod 8) of byte i div 8
StoredBit(bv, i) ==
    (byte_vec(bv)[(i \div ByteBits) + 1] \div Pow2(7 - (i % ByteBits))) % 2 = 1

BitVecLayout(bv, kept) ==
    /\ bv.bl = Len(kept)
    /\ Len(byte_vec(bv)) = CeilDiv(bv.bl, ByteBits)
    /\ \A i \in 0..(bv.bl - 1) : StoredBit(bv, i) = kept[i + 1]
    /\ bv.bl % ByteBits > 0 =>
           byte_vec(bv)[Len(byte_vec(bv))] % Pow2(ByteBits - (bv.bl % ByteBits)) = 0
    /\ \A i \in 1..Len(byte_vec(bv)) : byte_vec(bv)[i] \in 0..(U8Modulus - 1)

TruncateStep ==
    /\ fn_ret'.op = "truncate_last_incomplete_byte"
    /\ fn_ret' # fn_ret \/ fn_args' # fn_args

\* C37: after any sequence of push and truncate_last_incomplete_byte calls
\* byte_vec().len() = ceil(len() / 8), the i-th bit kept is at bit position
\* 7 - (i mod 8) of byte i div 8 and the unused low bits of the last byte
\* are 0; truncate_last_incomplete_byte removes exactly the len() mod 8
\* trailing bits, leaves the complete bytes unchanged and is idempotent.
C37_BitVec ==
    /\ [] BitVecLayout(fn_args.bv, fn_args.kept)
    /\ [][TruncateStep =>
            /\ fn_args'.bv.bl = fn_args.bv.bl - (fn_args.bv.bl % ByteBits)
            /\ byte_vec(fn_args'.bv) =
                 SubSeq(byte_vec(fn_args.bv), 1, fn_args.bv.bl \div ByteBits)
            /\ truncate_last_incomplete_byte(fn_args'.bv) = fn_args'.bv]_vars

\* nine bits pushed: a one has begun the second byte after a zero
C37_Witness ==
    /\ fn_ret.op = "push"
    /\ fn_args.bv.bl = 9
    /\ Len(byte_vec(fn_args.bv)) = 2
    /\ byte_vec(fn_args.bv)[2] = 128
    /\ fn_args.kept[8] = FALSE

\* a truncation has cut three bits off after the first byte
C37_WitnessTruncated ==
    /\ fn_ret.op = "truncate_last_incomplete_byte"
    /\ fn_args.bv.bl = 8
    /\ byte_vec(fn_args.bv) = <<255>>

---------------------------------------------------------------------------
(* The length of the symbol stream *)

IsStuffBit(x) == x = StuffBit

\* the symbols of a whole frame: max(P, 1) StartOfFrame, 8 bits a byte, the
\* stuff bits, and the stuff_bit_after + 2 EndOfFrame
FrameLength ==
    (IF c.preamble > 1 THEN c.preamble ELSE 1)
    + 8 * Len(c.payload)
    + Len(SelectSeq(out, IsStuffBit))
    + c.stuff_bit_after + 2

SmRank(state) ==
    CASE state = "BeginOfFrame" -> 0
      [] state = "Payload" -> 1
      [] state = "EndOfFrame" -> 2
      [] state = "Complete" -> 3

NonEmptyPayload == c.payload # <<>> /\ c.stuff_bit_after >= 1

NoCounterOverflow == NonEmptyPayload /\ c.stuff_bit_after < U8Modulus - 2

\* the state machine does not move back
MovesForward == SmRank(m'.sm) >= SmRank(m.sm)

\* C38: for every non-empty payload, every stuff_bit_after >= 1 and every
\* preamble P, repeated next() reaches None after exactly max(P, 1) +
\* 8 * payload.len() + (number of StuffBit symbols) + stuff_bit_after + 2
\* symbols, and the state machine only moves forward BeginOfFrame ->
\* Payload -> EndOfFrame -> Complete.
C38_Terminates ==
    /\ NonEmptyPayload ~> (last = None)
    /\ []((NonEmptyPayload /\ last = None) => Len(out) = FrameLength)
    /\ [][NonEmptyPayload => MovesForward]_vars

\* the part of C38 the code keeps: the same for stuff_bit_after below 254
C38_TerminatesSmall ==
    /\ NoCounterOverflow ~> (last = None)
    /\ []((NoCounterOverflow /\ last = None) => Len(out) = FrameLength)
    /\ [][NoCounterOverflow => MovesForward]_vars

---------------------------------------------------------------------------
(* TransitionDecoder::next_baud: one baud of amplitudes against a kernel of *)
(* one baud                                                                 *)

\* the two searches next_baud makes
BaudSearches ==
    {TransitionSearch_process(next_baud_window(td_c, td_m), kernel) :
        kernel \in {td_c.transition_convolution_kernels.rising,
                    td_c.transition_convolution_kernels.falling}}

\* next_baud has a window to look at
BaudReady == td_m.sm = "Synchronized" /\ Len(td_m.carrier_amplitudes) >= buad_length(td_c)

One == [num |-> 1, den |-> 1]
AtLeastOne(snr) == snr.num >= snr.den

\* values of min_snr from one upwards
HighMinSnrs == {One, [num |-> 3, den |-> 2], [num |-> 2, den |-> 1]}

\* the convolution of a baud has one element, so that median = max and
\* snr() <= 1, and no min_snr >= 1 finds an edge
SingleElement ==
    BaudReady =>
        /\ \A ts \in BaudSearches :
             /\ Len(next_baud_window(td_c, td_m)) = buad_length(td_c)
             /\ Len(ts.convolved) = 1
             /\ ts.median = ts.max
             /\ ~snr_above(ts, One)
        /\ \A snr \in HighMinSnrs :
             next_baud_transition([td_c EXCEPT !.min_snr = snr], td_m).ts = Hold(1)

\* the Hold(1) pushed since the last Rising
RECURSIVE HoldsOfRun(_)
HoldsOfRun(pushed) ==
    IF pushed = <<>> \/ pushed[Len(pushed)] # Hold(1) THEN 0
    ELSE 1 + HoldsOfRun(SubSeq(pushed, 1, Len(pushed) - 1))

\* what next_baud has pushed in the step
PushedInStep == SubSeq(td_m'.pushed, Len(td_m.pushed) + 1, Len(td_m'.pushed))

\* next_baud pushes Hold(1), and ends the run with Noise(1) exactly at the
\* max_trainsition_distance-th Hold
HoldsUntilNoise ==
    (NextBaudStep /\ AtLeastOne(td_c.min_snr)) =>
        IF HoldsOfRun(td_m.pushed) + 1 = td_c.max_trainsition_distance
        THEN /\ PushedInStep = <<Hold(1), Noise(1)>>
             /\ td_m'.sm = "Searching"
             /\ LastEntry(td_m') = Noise(1)
        ELSE /\ PushedInStep = <<Hold(1)>>
             /\ td_m'.sm = "Synchronized"
             /\ HoldsOfRun(td_m'.pushed) < td_c.max_trainsition_distance

\* C39: in Synchronized, next_baud runs TransitionSearch on exactly
\* buad_length() amplitudes with a kernel of that length, so the convolution
\* has a single element, median equals max and snr() <= 1; for every
\* min_snr >= 1 next_baud classifies every window as Hold(1), never pushes
\* Rising or Falling, and each synchronized run ends in Noise after
\* max_trainsition_distance holds.
C39_SynchronizedHolds == []SingleElement /\ [][HoldsUntilNoise]_vars

\* a run found with min_snr 2 has ended: Rising, two Hold(1), Noise(1)
C39_Witness ==
    /\ AtLeastOne(td_c.min_snr)
    /\ td_c.max_trainsition_distance = 2
    /\ td_m.pushed = <<Rising, Hold(1), Hold(1), Noise(1)>>
    /\ td_m.sm = "Searching"
    /\ td_ret = TdReturned("parse")

\* a run of one Hold has ended
C39_WitnessShortRun ==
    /\ AtLeastOne(td_c.min_snr)
    /\ td_c.max_trainsition_distance = 1
    /\ td_m.pushed = <<Rising, Hold(1), Noise(1)>>
    /\ td_m.sm = "Searching"

\* with min_snr below one next_baud finds an edge
C39_WitnessLowSnr ==
    /\ ~AtLeastOne(td_c.min_snr)
    /\ Len(td_m.pushed) >= 2
    /\ td_m.pushed[1] = Rising
    /\ td_m.pushed[2] \in {Rising, Falling}

---------------------------------------------------------------------------
(* signals::enc::am::utils::nrzi_to_transition_states on what the encoder   *)
(* gives                                                                    *)

IsEdge(ts) == ts \in {Rising, Falling}

RECURSIVE SumOfCounts(_, _)
SumOfCounts(ts, kind) ==
    IF ts = <<>> THEN 0
    ELSE (IF ts[1].t = kind THEN ts[1].v ELSE 0) + SumOfCounts(Tail(ts), kind)

\* the edges of the sequence, in order
Edges(ts) == SelectSeq(ts, IsEdge)

\* a sequence for `symbols` symbols: Rising first, the edges alternating, no
\* Hold next to a Hold and no Noise next to a Noise, every symbol an edge, a
\* held baud or the closing Noise(1)
WellFormedTransitions(ts, symbols) ==
    /\ ts # <<>>
    /\ ts[1] = Rising
    /\ \A i \in 1..(Len(Edges(ts)) - 1) : Edges(ts)[i] # Edges(ts)[i + 1]
    /\ \A i \in 1..(Len(ts) - 1) :
         ~(ts[i].t = ts[i + 1].t /\ ts[i].t \in {"Hold", "Noise"})
    /\ Len(Edges(ts)) + SumOfCounts(ts, "Hold") + 1 = symbols
    /\ ts[Len(ts)] = Noise(1)
    /\ SumOfCounts(ts, "Noise") = 1

\* the encoder has run to None and its symbols have been converted
Converted == last = None /\ transitions.t # "NotRun"

\* C40: for every symbol list the encoder produces (with a final Complete)
\* nrzi_to_transition_states returns Ok with a well-formed sequence: it
\* starts with Rising, its edges strictly alternate, no two adjacent entries
\* are both Hold or both Noise, the Hold counts sum to the number of held
\* symbols, and it ends with Noise(1); Err is returned only for lists the
\* encoder cannot produce.
C40_WellFormed ==
    Converted =>
        /\ transitions.t = "Ok"
        /\ WellFormedTransitions(transitions.v, Len(out) + 1)

\* the part of C40 the code keeps: the same for a preamble of at most one
\* StartOfFrame
C40_WellFormedOneStartOfFrame ==
    (Converted /\ c.preamble <= 1) =>
        /\ transitions.t = "Ok"
        /\ WellFormedTransitions(transitions.v, Len(out) + 1)

\* Err for a list the encoder has produced: two StartOfFrame symbols
C40_ErrOnPreamble ==
    /\ Converted
    /\ transitions.t = "Err"
    /\ c.preamble = 2
    /\ out[2].t = "StartOfFrame"

============================================================================
